---- MODULE Spec2Model ----
(***************************************************************************)
(* A model of the vivaldi-icon-maker core library: the color validation    *)
(* and recoloring passes of src/src/svgColorizer.ts, the color transforms  *)
(* of src/src/colorTransforms.ts and the variant generator of              *)
(* src/src/lib/vivaldiIconMaker.ts.                                        *)
(*                                                                         *)
(* Text is a sequence of lexical units.  Every unit is a string: keywords  *)
(* (fill, stroke, style, svg, rect, ...) are kept whole, everything else   *)
(* (quotes, spaces, digits, the letters of none) is one character per      *)
(* unit.  The letters i, l, s, t, r, k, y, v, g occur only inside keyword  *)
(* units, so no literal of the program's regular expressions can match     *)
(* across a unit boundary, and the regular expressions are modelled on the *)
(* units as they work on the characters.                                   *)
(***************************************************************************)
EXTENDS Integers, Sequences, FiniteSets, TLC

(***************************************************************************)
(* Text helpers: String.prototype.trim, toLowerCase, split, join, indexOf. *)
(***************************************************************************)

\* \s of the regular expressions, and the characters trim() strips
IsSpace(c) == c \in {" ", "\n"}

\* toLowerCase of one unit
Lower(c) ==
  CASE c = "A" -> "a" [] c = "B" -> "b" [] c = "C" -> "c"
    [] c = "D" -> "d" [] c = "E" -> "e" [] c = "F" -> "f"
    [] c = "N" -> "n" [] c = "O" -> "o"
    [] c = "FILL" -> "fill" [] c = "Fill" -> "fill"
    [] c = "STROKE" -> "stroke" [] c = "Stroke" -> "stroke"
    [] c = "STYLE" -> "style" [] c = "Style" -> "style"
    [] c = "SVG" -> "svg" [] c = "RECT" -> "rect"
    [] c = "viewBox" -> "viewbox" [] c = "VIEWBOX" -> "viewbox"
    [] OTHER -> c

LowerSeq(s) == [i \in 1..Len(s) |-> Lower(s[i])]

SetMin(S) == CHOOSE x \in S : \A y \in S : x <= y

SetMax(S) == CHOOSE x \in S : \A y \in S : x >= y

Trim(s) ==
  LET I == {i \in 1..Len(s) : ~IsSpace(s[i])}
  IN IF I = {} THEN <<>> ELSE SubSeq(s, SetMin(I), SetMax(I))

\* the first index >= i that holds no white space (Len(s)+1 when there is none)
SkipSpaces(s, i) ==
  LET I == {j \in i..Len(s) : ~IsSpace(s[j])}
  IN IF I = {} THEN Len(s) + 1 ELSE SetMin(I)

\* the first index >= i of unit c in s, 0 when there is none
IndexOfFrom(s, c, i) ==
  LET I == {j \in i..Len(s) : s[j] = c}
  IN IF I = {} THEN 0 ELSE SetMin(I)

\* whether the units of p stand in s at index i
OccursAt(s, p, i) ==
  /\ i >= 1
  /\ i + Len(p) - 1 <= Len(s)
  /\ \A k \in 1..Len(p) : s[i + k - 1] = p[k]

\* String.prototype.indexOf(p): the first index of p in s, 0 when there is none
IndexOfSeq(s, p) ==
  LET I == {i \in 1..(Len(s) - Len(p) + 1) : OccursAt(s, p, i)}
  IN IF I = {} THEN 0 ELSE SetMin(I)

Includes(s, p) == IndexOfSeq(s, p) # 0

\* String.prototype.split(sep) for a separator of one character
RECURSIVE Split(_, _)
Split(s, sep) ==
  LET i == IndexOfFrom(s, sep, 1)
  IN IF i = 0 THEN <<s>>
     ELSE <<SubSeq(s, 1, i - 1)>> \o Split(SubSeq(s, i + 1, Len(s)), sep)

\* Array.prototype.join(sep)
RECURSIVE Join(_, _)
Join(parts, sep) ==
  IF Len(parts) = 0 THEN <<>>
  ELSE IF Len(parts) = 1 THEN parts[1]
  ELSE parts[1] \o sep \o Join(Tail(parts), sep)

RECURSIVE Concat(_)
Concat(parts) ==
  IF Len(parts) = 0 THEN <<>> ELSE parts[1] \o Concat(Tail(parts))

NONE == <<"n", "o", "n", "e">>

\* value.trim().toLowerCase() === "none"
IsNoneText(s) == LowerSeq(Trim(s)) = NONE

(***************************************************************************)
(* src/src/svgColorizer.ts: the three rewrite passes.                      *)
(***************************************************************************)

NoMatch == [found |-> FALSE, from |-> 0, to |-> 0, last |-> 0]

\* new RegExp(`(${property}\\s*=\\s*\")(.*?)\"`, "gi") tried at index i:
\* from..to is the value (group 2), last the closing quote
AttributeMatchAt(s, i, property) ==
  IF Lower(s[i]) # property THEN NoMatch
  ELSE LET j == SkipSpaces(s, i + 1)
       IN IF j > Len(s) \/ s[j] # "=" THEN NoMatch
          ELSE LET k == SkipSpaces(s, j + 1)
               IN IF k > Len(s) \/ s[k] # "\"" THEN NoMatch
                  ELSE LET q == IndexOfFrom(s, "\"", k + 1)
                       IN IF q = 0 \/ IndexOfFrom(SubSeq(s, 1, q), "\n", k + 1) # 0
                          THEN NoMatch
                          ELSE [found |-> TRUE, from |-> k + 1, to |-> q - 1, last |-> q]

\* a none value is never kept
KeepsNone_Never(value, color, preserveNone) == FALSE

\* the none-preservation rule shared by the three passes
KeepsNone(value, color, preserveNone) ==
  preserveNone /\ IsNoneText(value) /\ ~IsNoneText(color)

\* the first of the indices where a global pattern matches, 0 when there is
\* none: where the pattern finds its next match
FirstOf(I) == IF I = {} THEN 0 ELSE SetMin(I)

RECURSIVE replaceSvgAttributesFrom(_, _, _, _, _)
replaceSvgAttributesFrom(s, i, property, color, preserveNone) ==
  LET next == FirstOf({j \in i..Len(s) : AttributeMatchAt(s, j, property).found})
      m == AttributeMatchAt(s, next, property)
  IN IF next = 0 THEN SubSeq(s, i, Len(s))
     ELSE SubSeq(s, i, next - 1)
          \o (IF KeepsNone(SubSeq(s, m.from, m.to), color, preserveNone)
              THEN SubSeq(s, next, m.last)
              ELSE SubSeq(s, next, m.from - 1) \o color \o <<"\"">>)
          \o replaceSvgAttributesFrom(s, m.last + 1, property, color, preserveNone)

replaceSvgAttributes(svgContent, property, color, preserveNone) ==
  replaceSvgAttributesFrom(svgContent, 1, property, color, preserveNone)

\* /style="([^"]*)"/gi tried at index i: from..to is the style body
StyleAttributeMatchAt(s, i) ==
  IF Lower(s[i]) # "style" \/ i + 2 > Len(s) THEN NoMatch
  ELSE IF s[i + 1] # "=" \/ s[i + 2] # "\"" THEN NoMatch
  ELSE LET q == IndexOfFrom(s, "\"", i + 3)
       IN IF q = 0 THEN NoMatch
          ELSE [found |-> TRUE, from |-> i + 3, to |-> q - 1, last |-> q]

\* styleBody.split(";").map((block) => block.trim()).filter(Boolean)
Declarations(styleBody) ==
  LET parts == Split(styleBody, ";")
  IN SelectSeq([k \in 1..Len(parts) |-> Trim(parts[k])], LAMBDA d : d # <<>>)

\* the callback of declarations.map: the declaration's new text and whether
\* it set changed
UpdateDeclaration(declaration, property, color, preserveNone) ==
  LET parts == Split(declaration, ":")
      name == Trim(parts[1])
  IN IF name = <<>> \/ Len(parts) < 2
     THEN [text |-> declaration, changed |-> FALSE]
     ELSE IF LowerSeq(name) # <<property>>
     THEN [text |-> declaration, changed |-> FALSE]
     ELSE IF KeepsNone(Trim(parts[2]), color, preserveNone)
     THEN [text |-> declaration, changed |-> FALSE]
     ELSE [text |-> name \o <<":">> \o color, changed |-> TRUE]

\* the attribute is written anew whether or not a declaration changed
RewriteStyleAttribute_AlwaysJoin(match, styleBody, property, color, preserveNone) ==
  LET declarations == Declarations(styleBody)
      updated == [k \in 1..Len(declarations) |->
                    UpdateDeclaration(declarations[k], property, color, preserveNone)]
  IN <<"style", "=", "\"">>
     \o Join([k \in 1..Len(declarations) |-> updated[k].text], <<";", " ">>)
     \o <<"\"">>

\* the callback of svgContent.replace(styleAttributePattern, ...)
RewriteStyleAttribute(match, styleBody, property, color, preserveNone) ==
  LET declarations == Declarations(styleBody)
      updated == [k \in 1..Len(declarations) |->
                    UpdateDeclaration(declarations[k], property, color, preserveNone)]
  IN IF \A k \in 1..Len(declarations) : ~updated[k].changed
     THEN match
     ELSE <<"style", "=", "\"">>
          \o Join([k \in 1..Len(declarations) |-> updated[k].text], <<";", " ">>)
          \o <<"\"">>

RECURSIVE replaceInlineStyleAttributesFrom(_, _, _, _, _)
replaceInlineStyleAttributesFrom(s, i, property, color, preserveNone) ==
  LET next == FirstOf({j \in i..Len(s) : StyleAttributeMatchAt(s, j).found})
      m == StyleAttributeMatchAt(s, next)
  IN IF next = 0 THEN SubSeq(s, i, Len(s))
     ELSE SubSeq(s, i, next - 1)
          \o RewriteStyleAttribute(SubSeq(s, next, m.last), SubSeq(s, m.from, m.to),
                                   property, color, preserveNone)
          \o replaceInlineStyleAttributesFrom(s, m.last + 1, property, color, preserveNone)

replaceInlineStyleAttributes(svgContent, property, color, preserveNone) ==
  replaceInlineStyleAttributesFrom(svgContent, 1, property, color, preserveNone)

\* the first index >= i where </style> stands (case-insensitive), 0 when none
StyleCloseFrom(s, i) ==
  LET I == {j \in i..(Len(s) - 3) :
              /\ s[j] = "<"
              /\ s[j + 1] = "/"
              /\ Lower(s[j + 2]) = "style"
              /\ s[j + 3] = ">"}
  IN IF I = {} THEN 0 ELSE SetMin(I)

\* /<style[^>]*>([\s\S]*?)<\/style>/gi tried at index i: from..to is the block
\* content (group 1), last the > of </style>
StyleBlockMatchAt(s, i) ==
  IF s[i] # "<" \/ i + 1 > Len(s) THEN NoMatch
  ELSE IF Lower(s[i + 1]) # "style" THEN NoMatch
  ELSE LET gt == IndexOfFrom(s, ">", i + 2)
       IN IF gt = 0 THEN NoMatch
          ELSE LET c == StyleCloseFrom(s, gt + 1)
               IN IF c = 0 THEN NoMatch
                  ELSE [found |-> TRUE, from |-> gt + 1, to |-> c - 1, last |-> c + 3]

\* the pattern taken as the start of a property name: the property followed
\* by anything up to the colon
PropertyMatchAt_Prefix(b, i, property) ==
  IF Lower(b[i]) # property THEN NoMatch
  ELSE LET stops == {k \in (i + 1)..Len(b) : b[k] \in {";", "}"}}
           end == IF stops = {} THEN Len(b) ELSE SetMin(stops) - 1
           j == IndexOfFrom(SubSeq(b, 1, end), ":", i + 1)
       IN IF j = 0 \/ end < j + 1 THEN NoMatch
          ELSE LET v == SkipSpaces(b, j + 1)
               IN [found |-> TRUE, from |-> IF v > end THEN end ELSE v,
                   to |-> end, last |-> end]

\* new RegExp(`(${property})(?!-)\\s*:\\s*([^;\\}]+)`, "gi") tried at index i
\* of the block content: from..to is the value (group 2), which is also the
\* end of the match
PropertyMatchAt(b, i, property) ==
  IF Lower(b[i]) # property THEN NoMatch
  ELSE IF i + 1 <= Len(b) /\ b[i + 1] = "-" THEN NoMatch
  ELSE LET j == SkipSpaces(b, i + 1)
       IN IF j > Len(b) \/ b[j] # ":" THEN NoMatch
          ELSE LET stops == {k \in (j + 1)..Len(b) : b[k] \in {";", "}"}}
                   end == IF stops = {} THEN Len(b) ELSE SetMin(stops) - 1
                   v == SkipSpaces(b, j + 1)
               IN IF end < j + 1 THEN NoMatch
                  ELSE [found |-> TRUE, from |-> IF v > end THEN end ELSE v,
                        to |-> end, last |-> end]

RECURSIVE replaceDeclarationsFrom(_, _, _, _, _)
replaceDeclarationsFrom(b, i, property, color, preserveNone) ==
  LET next == FirstOf({j \in i..Len(b) : PropertyMatchAt(b, j, property).found})
      m == PropertyMatchAt(b, next, property)
  IN IF next = 0 THEN SubSeq(b, i, Len(b))
     ELSE SubSeq(b, i, next - 1)
          \o (IF KeepsNone(SubSeq(b, m.from, m.to), color, preserveNone)
              THEN SubSeq(b, next, m.last)
              ELSE <<b[next], ":">> \o color)
          \o replaceDeclarationsFrom(b, m.last + 1, property, color, preserveNone)

\* GetSubstitution of String.prototype.replace for a string pattern: the
\* replacement text with its four dollar patterns expanded (dollar, matched
\* text, text before the match, text after the match).  BackTick is the unit
\* of the replacement patterns (the character itself cannot be written in a
\* string of this module, so the unit is named)
BackTick == "<backtick>"

RECURSIVE GetSubstitution(_, _, _, _)
GetSubstitution(replacement, matched, before, after) ==
  LET next == FirstOf({j \in 1..(Len(replacement) - 1) :
                         /\ replacement[j] = "$"
                         /\ replacement[j + 1] \in {"$", "&", BackTick, "'"}})
  IN IF next = 0 THEN replacement
     ELSE SubSeq(replacement, 1, next - 1)
          \o (CASE replacement[next + 1] = "$" -> <<"$">>
                [] replacement[next + 1] = "&" -> matched
                [] replacement[next + 1] = BackTick -> before
                [] OTHER -> after)
          \o GetSubstitution(SubSeq(replacement, next + 2, Len(replacement)),
                             matched, before, after)

\* String.prototype.replace(pattern, replacement) for a string pattern: the
\* first occurrence of the pattern is replaced
ReplaceString(s, pattern, replacement) ==
  LET i == IndexOfSeq(s, pattern)
  IN IF i = 0 THEN s
     ELSE LET before == SubSeq(s, 1, i - 1)
              after == SubSeq(s, i + Len(pattern), Len(s))
          IN before \o GetSubstitution(replacement, pattern, before, after) \o after

\* the callback of svgContent.replace(styleBlockPattern, ...)
RewriteStyleBlock(match, blockContent, property, color, preserveNone) ==
  LET updated == replaceDeclarationsFrom(blockContent, 1, property, color, preserveNone)
  IN IF updated = blockContent THEN match
     ELSE ReplaceString(match, blockContent, updated)

RECURSIVE replaceStyleBlocksFrom(_, _, _, _, _)
replaceStyleBlocksFrom(s, i, property, color, preserveNone) ==
  LET next == FirstOf({j \in i..Len(s) : StyleBlockMatchAt(s, j).found})
      m == StyleBlockMatchAt(s, next)
  IN IF next = 0 THEN SubSeq(s, i, Len(s))
     ELSE SubSeq(s, i, next - 1)
          \o RewriteStyleBlock(SubSeq(s, next, m.last), SubSeq(s, m.from, m.to),
                               property, color, preserveNone)
          \o replaceStyleBlocksFrom(s, m.last + 1, property, color, preserveNone)

replaceStyleBlocks(svgContent, property, color, preserveNone) ==
  replaceStyleBlocksFrom(svgContent, 1, property, color, preserveNone)

applyColor(svgContent, property, color, preserveNone) ==
  replaceStyleBlocks(
    replaceInlineStyleAttributes(
      replaceSvgAttributes(svgContent, property, color, preserveNone),
      property, color, preserveNone),
    property, color, preserveNone)

\* HEX_COLOR_PATTERN: /^#([0-9a-f]{3}|[0-9a-f]{4}|[0-9a-f]{6}|[0-9a-f]{8})$/i
HexDigits == <<"0", "1", "2", "3", "4", "5", "6", "7", "8", "9", "a", "b", "c", "d", "e", "f">>

IsHexDigit(c) == \E v \in 1..16 : HexDigits[v] = Lower(c)

\* the pattern with any number of digits from 3 to 8
HEX_COLOR_PATTERN_AnyLength(s) ==
  /\ Len(s) \in 4..9
  /\ s[1] = "#"
  /\ \A i \in 2..Len(s) : IsHexDigit(s[i])

HEX_COLOR_PATTERN(s) ==
  /\ Len(s) \in {4, 5, 7, 9}
  /\ s[1] = "#"
  /\ \A i \in 2..Len(s) : IsHexDigit(s[i])

\* the Error validateColorInput throws: its message is the three parts in a row
InvalidColor(color) ==
  [ok |-> FALSE, kind |-> "InvalidColor",
   message |-> <<"Unsupported color value: ", color,
                 ". Use CSS hex values like #ff3300 or the keyword none.">>]

validateColorInput(color) ==
  LET trimmed == Trim(color)
  IN IF LowerSeq(trimmed) = NONE THEN [ok |-> TRUE, kind |-> "color", value |-> NONE]
     ELSE IF HEX_COLOR_PATTERN(trimmed) THEN [ok |-> TRUE, kind |-> "color", value |-> trimmed]
     ELSE InvalidColor(color)

\* an absent option (undefined), which like the empty text is falsy
Absent == <<>>

\* recolorVivaldiSvg(svgContent, {fill, stroke, preserveFillNone, preserveStrokeNone})
recolorVivaldiSvg(svgContent, fill, stroke, preserveFillNone, preserveStrokeNone) ==
  LET afterFill == IF fill # Absent
                   THEN applyColor(svgContent, "fill", fill, preserveFillNone)
                   ELSE svgContent
  IN IF stroke # Absent
     THEN applyColor(afterFill, "stroke", stroke, preserveStrokeNone)
     ELSE afterFill

(***************************************************************************)
(* Numbers.  A number of the program is modelled as an exact fraction      *)
(* <<numerator, denominator>> in lowest terms with a positive denominator. *)
(* The program computes in double precision, which differs from the exact  *)
(* value by relative errors of about 2^-53.                                *)
(***************************************************************************)
Abs(x) == IF x < 0 THEN -x ELSE x

RECURSIVE GCD(_, _)
GCD(a, b) == IF b = 0 THEN a ELSE GCD(b, a % b)

Frac(n, d) ==
  LET g == GCD(Abs(n), Abs(d))
      sign == IF d < 0 THEN -1 ELSE 1
  IN <<sign * (n \div g), sign * (d \div g)>>

Num(n) == <<n, 1>>

Add(x, y) ==
  LET g == GCD(x[2], y[2])
  IN Frac(x[1] * (y[2] \div g) + y[1] * (x[2] \div g), x[2] * (y[2] \div g))

Neg(x) == <<-x[1], x[2]>>

Sub(x, y) == Add(x, Neg(y))

Mul(x, y) ==
  LET a == Frac(x[1], y[2])
      b == Frac(y[1], x[2])
  IN <<a[1] * b[1], a[2] * b[2]>>

\* x / y for y # 0
Div(x, y) == Mul(x, IF y[1] < 0 THEN <<-y[2], -y[1]>> ELSE <<y[2], y[1]>>)

Less(x, y) == Sub(x, y)[1] < 0

Leq(x, y) == Sub(x, y)[1] <= 0

MathMin(x, y) == IF Less(y, x) THEN y ELSE x

MathMax(x, y) == IF Less(x, y) THEN y ELSE x

\* Math.abs
MathAbs(x) == <<Abs(x[1]), x[2]>>

\* Math.floor
Floor(x) == IF x[1] >= 0 THEN x[1] \div x[2] ELSE -((-x[1] + x[2] - 1) \div x[2])

\* Math.round: the nearest integer, a tie going up
MathRound(x) == Floor(Add(x, <<1, 2>>))

(***************************************************************************)
(* src/src/colorTransforms.ts                                              *)
(***************************************************************************)

\* clamp(value, min, max)
clamp(value, min, max) == MathMin(MathMax(value, min), max)

clamp01(value) == clamp(value, Num(0), Num(1))

\* clampChannel(value) for an integer value
clampChannel(value) ==
  IF value < 0 THEN 0 ELSE IF value > 255 THEN 255 ELSE value

\* parseInt(c, 16) of one hex digit
HexValue(c) == (CHOOSE v \in 1..16 : HexDigits[v] = Lower(c)) - 1

\* hex.trim().replace(/^#/, "")
StripHash(hex) ==
  LET t == Trim(hex)
  IN IF Len(t) >= 1 /\ t[1] = "#" THEN Tail(t) ELSE t

parseShortHex(value) ==
  [r |-> 17 * HexValue(value[1]),
   g |-> 17 * HexValue(value[2]),
   b |-> 17 * HexValue(value[3]),
   a |-> IF Len(value) = 4 THEN Frac(17 * HexValue(value[4]), 255) ELSE Num(1)]

parseLongHex(value) ==
  [r |-> 16 * HexValue(value[1]) + HexValue(value[2]),
   g |-> 16 * HexValue(value[3]) + HexValue(value[4]),
   b |-> 16 * HexValue(value[5]) + HexValue(value[6]),
   a |-> IF Len(value) = 8
         THEN Frac(16 * HexValue(value[7]) + HexValue(value[8]), 255)
         ELSE Num(1)]

\* the lengths parseHexColor accepts; for any other it throws
ParsesAsHex(hex) == Len(StripHash(hex)) \in {3, 4, 6, 8}

\* parseHexColor(hex), for a text it does not throw on
parseHexColor(hex) ==
  LET normalized == StripHash(hex)
  IN IF Len(normalized) = 3 \/ Len(normalized) = 4
     THEN parseShortHex(normalized)
     ELSE parseLongHex(normalized)

\* value.toString(16) without the padding to two digits
HexByte_Unpadded(value) ==
  IF value < 16 THEN <<HexDigits[value + 1]>>
  ELSE <<HexDigits[(value \div 16) + 1], HexDigits[(value % 16) + 1]>>

\* value.toString(16).padStart(2, "0") for a channel 0..255
HexByte(value) == <<HexDigits[(value \div 16) + 1], HexDigits[(value % 16) + 1]>>

\* the color written without the leading #
formatHexColor_NoHash(color, includeAlpha) ==
  HexByte(color.r) \o HexByte(color.g) \o HexByte(color.b)
  \o (IF includeAlpha THEN HexByte(MathRound(Mul(color.a, Num(255)))) ELSE <<>>)

formatHexColor(color, includeAlpha) ==
  <<"#">> \o HexByte(color.r) \o HexByte(color.g) \o HexByte(color.b)
  \o (IF includeAlpha THEN HexByte(MathRound(Mul(color.a, Num(255)))) ELSE <<>>)

\* only the long form counts as carrying an alpha channel
hasExplicitAlpha_LongOnly(input) == Len(StripHash(input)) = 8

hasExplicitAlpha(input) == Len(StripHash(input)) \in {4, 8}

rgbToHsl(color) ==
  LET max == SetMax({color.r, color.g, color.b})
      min == SetMin({color.r, color.g, color.b})
      delta == max - min
      sector == IF max = color.r THEN Frac(color.g - color.b, delta)
                ELSE IF max = color.g THEN Add(Frac(color.b - color.r, delta), Num(2))
                ELSE Add(Frac(color.r - color.g, delta), Num(4))
      h60 == Mul(sector, Num(60))
      l == Frac(max + min, 510)
  IN [h |-> IF delta = 0 THEN Num(0)
            ELSE IF h60[1] < 0 THEN Add(h60, Num(360)) ELSE h60,
      s |-> IF delta = 0 THEN Num(0)
            ELSE Div(Frac(delta, 255), Sub(Num(1), MathAbs(Sub(Mul(Num(2), l), Num(1))))),
      l |-> l,
      a |-> color.a]

hueToRgb(p, q, t) ==
  LET t1 == IF t[1] < 0 THEN Add(t, Num(1)) ELSE t
      temp == IF Less(Num(1), t1) THEN Sub(t1, Num(1)) ELSE t1
  IN IF Less(temp, <<1, 6>>) THEN Add(p, Mul(Mul(Sub(q, p), Num(6)), temp))
     ELSE IF Less(temp, <<1, 2>>) THEN q
     ELSE IF Less(temp, <<2, 3>>)
     THEN Add(p, Mul(Mul(Sub(q, p), Sub(<<2, 3>>, temp)), Num(6)))
     ELSE p

hslToRgb(color) ==
  LET h == Div(color.h, Num(360))
      s == clamp01(color.s)
      l == clamp01(color.l)
      gray == clampChannel(MathRound(Mul(l, Num(255))))
      q == IF Less(l, <<1, 2>>) THEN Mul(l, Add(Num(1), s)) ELSE Sub(Add(l, s), Mul(l, s))
      p == Sub(Mul(Num(2), l), q)
  IN IF s[1] = 0 THEN [r |-> gray, g |-> gray, b |-> gray, a |-> color.a]
     ELSE [r |-> clampChannel(MathRound(Mul(hueToRgb(p, q, Add(h, <<1, 3>>)), Num(255)))),
           g |-> clampChannel(MathRound(Mul(hueToRgb(p, q, h), Num(255)))),
           b |-> clampChannel(MathRound(Mul(hueToRgb(p, q, Sub(h, <<1, 3>>)), Num(255)))),
           a |-> color.a]

\* lines 13 to 21 of createInactiveColor: the inactive color in HSL
InactiveHsl_Reversed(color, mixRatio) ==
  LET ratio == clamp(mixRatio, Num(0), Num(1))
      parsed == parseHexColor(color)
      hsl == rgbToHsl(parsed)
      desaturation == Sub(<<3, 5>>, Mul(<<3, 10>>, ratio))
      lightBoost == Sub(<<2, 5>>, Mul(<<1, 5>>, ratio))
  IN [h |-> hsl.h,
      s |-> clamp01(Mul(hsl.s, Sub(Num(1), desaturation))),
      l |-> clamp01(Add(hsl.l, lightBoost)),
      a |-> clamp(Mul(parsed.a, Sub(Num(1), Mul(<<1, 10>>, ratio))), Num(0), Num(1))]

InactiveHsl(color, mixRatio) ==
  LET ratio == clamp(mixRatio, Num(0), Num(1))
      parsed == parseHexColor(color)
      hsl == rgbToHsl(parsed)
      desaturation == Add(<<3, 10>>, Mul(<<3, 10>>, ratio))
      lightBoost == Add(<<1, 5>>, Mul(<<1, 5>>, ratio))
  IN [h |-> hsl.h,
      s |-> clamp01(Mul(hsl.s, Sub(Num(1), desaturation))),
      l |-> clamp01(Add(hsl.l, lightBoost)),
      a |-> clamp(Mul(parsed.a, Sub(Num(1), Mul(<<1, 10>>, ratio))), Num(0), Num(1))]

createInactiveColor(color, mixRatio) ==
  IF IsNoneText(color) THEN NONE
  ELSE formatHexColor(hslToRgb(InactiveHsl(color, mixRatio)), hasExplicitAlpha(color))

\* the background keeps the hue and the saturation of the color
createInactiveBackgroundColor_KeepsHue(color, mixRatio) ==
  LET ratio == clamp(mixRatio, Num(0), Num(1))
      hsl == rgbToHsl(parseHexColor(color))
      targetLightness == clamp01(Add(Mul(hsl.l, Sub(Num(1), ratio)), Mul(<<17, 20>>, ratio)))
  IN formatHexColor(hslToRgb([h |-> hsl.h, s |-> hsl.s, l |-> targetLightness, a |-> Num(1)]),
                    FALSE)

createInactiveBackgroundColor(color, mixRatio) ==
  LET ratio == clamp(mixRatio, Num(0), Num(1))
      parsed == parseHexColor(color)
      l == rgbToHsl(parsed).l
      targetLightness == clamp01(Add(Mul(l, Sub(Num(1), ratio)), Mul(<<17, 20>>, ratio)))
  IN formatHexColor(hslToRgb([h |-> Num(0), s |-> Num(0), l |-> targetLightness, a |-> Num(1)]),
                    FALSE)

(***************************************************************************)
(* Numbers as text: Number(text), String(number), toFixed.                 *)
(***************************************************************************)
IsDigit(c) == c \in {"0", "1", "2", "3", "4", "5", "6", "7", "8", "9"}

RECURSIVE Pow10(_)
Pow10(n) == IF n = 0 THEN 1 ELSE 10 * Pow10(n - 1)

RECURSIVE DigitsValue(_)
\* the value of a row of decimal digits (0 for the empty row)
DigitsValue(t) ==
  IF Len(t) = 0 THEN 0
  ELSE 10 * DigitsValue(SubSeq(t, 1, Len(t) - 1)) + HexValue(t[Len(t)])

\* not-a-number, which is what Number gives for a text that is no numeral
NaN == <<0, 0>>

IsNaN(x) == x[2] = 0

\* Number(text) for a text written with a sign, decimal digits and a point;
\* any other text is taken as no numeral
NumberOf(t) ==
  LET signed == Len(t) >= 1 /\ t[1] \in {"-", "+"}
      body == IF signed THEN Tail(t) ELSE t
      point == IndexOfFrom(body, ".", 1)
      whole == IF point = 0 THEN body ELSE SubSeq(body, 1, point - 1)
      fraction == IF point = 0 THEN <<>> ELSE SubSeq(body, point + 1, Len(body))
      wellFormed == /\ \A i \in 1..Len(whole) : IsDigit(whole[i])
                    /\ \A i \in 1..Len(fraction) : IsDigit(fraction[i])
                    /\ Len(whole) + Len(fraction) >= 1
      magnitude == Add(Num(DigitsValue(whole)), Frac(DigitsValue(fraction), Pow10(Len(fraction))))
  IN IF ~wellFormed THEN NaN
     ELSE IF signed /\ t[1] = "-" THEN Neg(magnitude) ELSE magnitude

RECURSIVE NaturalToString(_)
NaturalToString(n) ==
  IF n < 10 THEN <<HexDigits[n + 1]>>
  ELSE NaturalToString(n \div 10) \o <<HexDigits[(n % 10) + 1]>>

RECURSIVE PadStart(_, _, _)
PadStart(t, length, c) == IF Len(t) >= length THEN t ELSE PadStart(<<c>> \o t, length, c)

\* Number.prototype.toFixed(digits)
toFixed(x, digits) ==
  LET scaled == MathRound(Mul(MathAbs(x), Num(Pow10(digits))))
  IN (IF x[1] < 0 THEN <<"-">> ELSE <<>>)
     \o NaturalToString(scaled \div Pow10(digits))
     \o (IF digits = 0 THEN <<>>
         ELSE <<".">> \o PadStart(NaturalToString(scaled % Pow10(digits)), digits, "0"))

\* text.replace(/0+$/g, "").replace(/\.$/, "")
StripZeros(t) ==
  LET I == {i \in 1..Len(t) : t[i] # "0"}
      cut == IF I = {} THEN <<>> ELSE SubSeq(t, 1, SetMax(I))
  IN IF Len(cut) >= 1 /\ cut[Len(cut)] = "." THEN SubSeq(cut, 1, Len(cut) - 1) ELSE cut

IsInteger(x) == x[2] = 1

\* String(number), as a template literal writes it, for a number with at
\* most six decimals
NumberToString(x) ==
  IF IsInteger(x)
  THEN (IF x[1] < 0 THEN <<"-">> ELSE <<>>) \o NaturalToString(Abs(x[1]))
  ELSE StripZeros(toFixed(x, 6))

(***************************************************************************)
(* src/src/lib/vivaldiIconMaker.ts                                         *)
(***************************************************************************)
DEFAULT_INACTIVE_MIX == <<1, 2>>

DEFAULT_INACTIVE_CORNER_RADIUS == <<6, 1>>

DEFAULT_INACTIVE_INSET_RATIO == <<1, 10>>

INACTIVE_BACKGROUND_MARKER == <<"data-vivaldi-inactive-bg", "=", "\"", "true", "\"">>

\* clampRatio without its upper bound
clampRatio_Unbounded(value) ==
  IF Leq(value, Num(0)) THEN Num(0) ELSE value

\* src/src/index.ts: clampRatio(value)
clampRatio(value) ==
  IF Leq(value, Num(0)) THEN Num(0)
  ELSE IF Leq(<<9, 10>>, value) THEN <<9, 10>>
  ELSE value

\* the Error of ensureValidSvg and of addOrUpdateBackgroundRect
InvalidSvgDocument(thrownBy) ==
  [ok |-> FALSE, kind |-> "InvalidSvgDocument", thrownBy |-> thrownBy]

\* ensureValidSvg(content) does not throw
IsValidSvg(content) == content # <<>> /\ Includes(content, <<"<", "svg">>)

clampUnitRange(value) ==
  IF IsNaN(value) THEN DEFAULT_INACTIVE_MIX
  ELSE MathMin(MathMax(value, Num(0)), Num(1))

normalizeColor(color) ==
  IF color = Absent THEN Absent
  ELSE IF IsNoneText(color) THEN Absent
  ELSE color

\* a primary color taken from the fill alone
pickPrimaryColor_FillOnly(fill, stroke) == normalizeColor(fill)

\* a primary color that prefers the stroke
pickPrimaryColor_StrokeFirst(fill, stroke) ==
  IF normalizeColor(stroke) # Absent THEN normalizeColor(stroke)
  ELSE IF normalizeColor(fill) # Absent THEN normalizeColor(fill)
  ELSE Absent

pickPrimaryColor(fill, stroke) ==
  IF normalizeColor(fill) # Absent THEN normalizeColor(fill)
  ELSE IF normalizeColor(stroke) # Absent THEN normalizeColor(stroke)
  ELSE Absent

\* a none or absent color is dropped from the inactive variant
transformInactiveColor_DropsNone(color, mix) ==
  IF color = Absent \/ IsNoneText(color) THEN Absent
  ELSE createInactiveColor(color, mix)

transformInactiveColor(color, mix) ==
  IF color = Absent \/ IsNoneText(color) THEN color
  ELSE createInactiveColor(color, mix)

\* match[1].trim().split(/\s+/)
RECURSIVE SplitSpaces(_)
SplitSpaces(t) ==
  LET I == {i \in 1..Len(t) : IsSpace(t[i])}
  IN IF I = {} THEN <<t>>
     ELSE <<SubSeq(t, 1, SetMin(I) - 1)>>
          \o SplitSpaces(SubSeq(t, SkipSpaces(t, SetMin(I)), Len(t)))

\* /viewBox="([^"]+)"/i: the first match's group 1, <<>> when there is none
ViewBoxText(s) ==
  LET I == {i \in 1..(Len(s) - 3) :
              /\ Lower(s[i]) = "viewbox"
              /\ s[i + 1] = "="
              /\ s[i + 2] = "\""
              /\ s[i + 3] # "\""
              /\ IndexOfFrom(s, "\"", i + 3) # 0}
  IN IF I = {} THEN <<>>
     ELSE SubSeq(s, SetMin(I) + 3, IndexOfFrom(s, "\"", SetMin(I) + 3) - 1)

NoViewBox == [found |-> FALSE]

extractViewBox(svgContent) ==
  LET text == ViewBoxText(svgContent)
      parts == SplitSpaces(Trim(text))
  IN IF text = <<>> THEN NoViewBox
     ELSE IF Len(parts) # 4 THEN NoViewBox
     ELSE IF \E k \in 1..4 : IsNaN(NumberOf(parts[k])) THEN NoViewBox
     ELSE [found |-> TRUE, minX |-> NumberOf(parts[1]), minY |-> NumberOf(parts[2]),
           width |-> NumberOf(parts[3]), height |-> NumberOf(parts[4])]

formatNumber(value) ==
  IF IsInteger(value) THEN NumberToString(value)
  ELSE StripZeros(toFixed(value, 4))

\* the text of the rect element with the given geometry texts
RectElement(x, y, width, height, cornerRadius, color) ==
  <<"<", "rect", " ">> \o INACTIVE_BACKGROUND_MARKER
  \o <<" ", "x", "=", "\"">> \o x
  \o <<"\"", " ", "y", "=", "\"">> \o y
  \o <<"\"", " ", "width", "=", "\"">> \o width
  \o <<"\"", " ", "height", "=", "\"">> \o height
  \o <<"\"", " ", "rx", "=", "\"">> \o NumberToString(cornerRadius)
  \o <<"\"", " ", "ry", "=", "\"">> \o NumberToString(cornerRadius)
  \o <<"\"", " ", "fill", "=", "\"">> \o color
  \o <<"\"", "/", ">">>

\* an inset rectangle left at the corner of the viewBox
buildInsetRectFromViewBox_Uncentered(viewBox, color, cornerRadius, insetRatio) ==
  LET clampedInset == clampRatio(insetRatio)
      newWidth == Mul(viewBox.width, Sub(Num(1), clampedInset))
      newHeight == Mul(viewBox.height, Sub(Num(1), clampedInset))
  IN RectElement(formatNumber(viewBox.minX), formatNumber(viewBox.minY),
                 formatNumber(newWidth), formatNumber(newHeight), cornerRadius, color)

buildInsetRectFromViewBox(viewBox, color, cornerRadius, insetRatio) ==
  LET clampedInset == clampRatio(insetRatio)
      newWidth == Mul(viewBox.width, Sub(Num(1), clampedInset))
      newHeight == Mul(viewBox.height, Sub(Num(1), clampedInset))
      offsetX == Add(viewBox.minX, Div(Sub(viewBox.width, newWidth), Num(2)))
      offsetY == Add(viewBox.minY, Div(Sub(viewBox.height, newHeight), Num(2)))
  IN RectElement(formatNumber(offsetX), formatNumber(offsetY),
                 formatNumber(newWidth), formatNumber(newHeight), cornerRadius, color)

buildInsetRectWithPercent(color, cornerRadius, insetRatio) ==
  LET insetPercent == toFixed(Div(Mul(insetRatio, Num(100)), Num(2)), 2) \o <<"%">>
      sizePercent == toFixed(Sub(Num(100), Mul(insetRatio, Num(100))), 2) \o <<"%">>
  IN RectElement(insetPercent, insetPercent, sizePercent, sizePercent, cornerRadius, color)

\* whether the marker stands at index i, letter case ignored
MarkerAt(s, i) ==
  /\ i + Len(INACTIVE_BACKGROUND_MARKER) - 1 <= Len(s)
  /\ \A k \in 1..Len(INACTIVE_BACKGROUND_MARKER) :
       Lower(s[i + k - 1]) = INACTIVE_BACKGROUND_MARKER[k]

\* new RegExp(`<rect[^>]*${INACTIVE_BACKGROUND_MARKER}[^>]*/>`, "i") tried at
\* index i: from is i, last the closing >
MarkedRectMatchAt(s, i) ==
  IF s[i] # "<" \/ i + 1 > Len(s) THEN NoMatch
  ELSE IF Lower(s[i + 1]) # "rect" THEN NoMatch
  ELSE LET gt == IndexOfFrom(s, ">", i + 2)
       IN IF gt = 0 THEN NoMatch
          ELSE IF s[gt - 1] # "/" THEN NoMatch
          ELSE IF \E m \in (i + 2)..(gt - 1 - Len(INACTIVE_BACKGROUND_MARKER)) : MarkerAt(s, m)
          THEN [found |-> TRUE, from |-> i, to |-> gt, last |-> gt]
          ELSE NoMatch

\* the first match of the marked rect pattern in s
MarkedRectMatch(s) ==
  LET I == {i \in 1..Len(s) : MarkedRectMatchAt(s, i).found}
  IN IF I = {} THEN NoMatch ELSE MarkedRectMatchAt(s, SetMin(I))

\* svgContent.match(/<svg[^>]*>/i): the first opening tag, <<>> when none
SvgOpenTag(s) ==
  LET I == {i \in 1..(Len(s) - 1) :
              s[i] = "<" /\ Lower(s[i + 1]) = "svg" /\ IndexOfFrom(s, ">", i + 2) # 0}
  IN IF I = {} THEN <<>>
     ELSE SubSeq(s, SetMin(I), IndexOfFrom(s, ">", SetMin(I) + 2))

\* an injection that never looks for a marked rectangle to replace
addOrUpdateBackgroundRect_AlwaysInsert(svgContent, color, cornerRadius, insetRatio) ==
  LET viewBox == extractViewBox(svgContent)
      rectElement == IF viewBox.found
                     THEN buildInsetRectFromViewBox(viewBox, color, cornerRadius,
                                                    clampRatio(insetRatio))
                     ELSE buildInsetRectWithPercent(color, cornerRadius, clampRatio(insetRatio))
      svgOpenTag == SvgOpenTag(svgContent)
  IN IF svgOpenTag = <<>>
     THEN InvalidSvgDocument("addOrUpdateBackgroundRect")
     ELSE [ok |-> TRUE, kind |-> "svg",
           svg |-> ReplaceString(svgContent, svgOpenTag,
                                 svgOpenTag \o <<"\n", " ", " ">> \o rectElement)]

addOrUpdateBackgroundRect(svgContent, color, cornerRadius, insetRatio) ==
  LET clampedInset == clampRatio(insetRatio)
      viewBox == extractViewBox(svgContent)
      rectElement == IF viewBox.found
                     THEN buildInsetRectFromViewBox(viewBox, color, cornerRadius, clampedInset)
                     ELSE buildInsetRectWithPercent(color, cornerRadius, clampedInset)
      rect == MarkedRectMatch(svgContent)
      svgOpenTag == SvgOpenTag(svgContent)
  IN IF rect.found
     THEN [ok |-> TRUE, kind |-> "svg",
           svg |-> SubSeq(svgContent, 1, rect.from - 1)
                   \o GetSubstitution(rectElement, SubSeq(svgContent, rect.from, rect.last),
                                      SubSeq(svgContent, 1, rect.from - 1),
                                      SubSeq(svgContent, rect.last + 1, Len(svgContent)))
                   \o SubSeq(svgContent, rect.last + 1, Len(svgContent))]
     ELSE IF svgOpenTag = <<>>
     THEN InvalidSvgDocument("addOrUpdateBackgroundRect")
     ELSE [ok |-> TRUE, kind |-> "svg",
           svg |-> ReplaceString(svgContent, svgOpenTag,
                                 svgOpenTag \o <<"\n", " ", " ">> \o rectElement)]

\* an option that was given holds its value in a row of one; an option left
\* out (undefined) is the empty row and takes its default
Given(value) == <<value>>

Omitted == <<>>

OrDefault(option, default) == IF option = Omitted THEN default ELSE option[1]

\* the corner radius taken as it was passed
SafeCornerRadius_Unclamped(inactiveCornerRadius) == inactiveCornerRadius

\* Math.max(0, inactiveCornerRadius)
SafeCornerRadius(inactiveCornerRadius) == MathMax(Num(0), inactiveCornerRadius)

\* lines 66 to 68: the background color of a primary color, none without one
BackgroundColorOf(primaryColor, normalizedInactiveMix) ==
  IF primaryColor # Absent
  THEN createInactiveBackgroundColor(primaryColor, normalizedInactiveMix)
  ELSE Absent

\* lines 77 to 84: the rectangle is injected when there is a background color
InjectBackground(inactiveSvg, backgroundColor, safeCornerRadius, inactiveBackgroundInsetRatio) ==
  IF backgroundColor # Absent
  THEN addOrUpdateBackgroundRect(inactiveSvg, backgroundColor, safeCornerRadius,
                                 inactiveBackgroundInsetRatio)
  ELSE [ok |-> TRUE, kind |-> "svg", svg |-> inactiveSvg]

\* lines 86 to 92: the variant pushed, or the error the injection threw
InactiveRecord(injected, inactiveFill, inactiveStroke, backgroundColor) ==
  IF ~injected.ok THEN injected
  ELSE [ok |-> TRUE, kind |-> "variant",
        variant |-> [name |-> "inactive", svg |-> injected.svg, fill |-> inactiveFill,
                     stroke |-> inactiveStroke, backgroundColor |-> backgroundColor]]

\* the recolor pass run on the text of an injection that succeeded
RecolorInjected(injected, inactiveFill, inactiveStroke, preserveFillNone, preserveStrokeNone) ==
  IF ~injected.ok THEN injected
  ELSE [injected EXCEPT !.svg = recolorVivaldiSvg(@, inactiveFill, inactiveStroke,
                                                  preserveFillNone, preserveStrokeNone)]

\* the rectangle injected first and the recolor pass run after it
InactiveVariantWith_InjectFirst(sourceSvg, inactiveFill, inactiveStroke, backgroundColor, preserveFillNone, preserveStrokeNone, safeCornerRadius, inactiveBackgroundInsetRatio) ==
  InactiveRecord(
    RecolorInjected(
      InjectBackground(sourceSvg, backgroundColor, safeCornerRadius,
                       inactiveBackgroundInsetRatio),
      inactiveFill, inactiveStroke, preserveFillNone, preserveStrokeNone),
    inactiveFill, inactiveStroke, backgroundColor)

\* lines 70 to 92, with the inactive colors and the background color computed
InactiveVariantWith(sourceSvg, inactiveFill, inactiveStroke, backgroundColor, preserveFillNone, preserveStrokeNone, safeCornerRadius, inactiveBackgroundInsetRatio) ==
  InactiveRecord(
    InjectBackground(
      recolorVivaldiSvg(sourceSvg, inactiveFill, inactiveStroke,
                        preserveFillNone, preserveStrokeNone),
      backgroundColor, safeCornerRadius, inactiveBackgroundInsetRatio),
    inactiveFill, inactiveStroke, backgroundColor)

\* the inactive variant of generateIconVariants (lines 63 to 93), or the
\* error thrown while building it (parseHexColor throws on a color that is
\* neither none nor of 3, 4, 6 or 8 digits)
InactiveVariant(sourceSvg, fill, stroke, preserveFillNone, preserveStrokeNone, normalizedInactiveMix, safeCornerRadius, inactiveBackgroundInsetRatio) ==
  IF \E c \in {fill, stroke} : c # Absent /\ ~IsNoneText(c) /\ ~ParsesAsHex(c)
  THEN [ok |-> FALSE, kind |-> "InvalidColor", thrownBy |-> "parseHexColor"]
  ELSE InactiveVariantWith(sourceSvg,
         transformInactiveColor(fill, normalizedInactiveMix),
         transformInactiveColor(stroke, normalizedInactiveMix),
         BackgroundColorOf(pickPrimaryColor(fill, stroke), normalizedInactiveMix),
         preserveFillNone, preserveStrokeNone, safeCornerRadius,
         inactiveBackgroundInsetRatio)

\* an active variant that is given a background rectangle as well
ActiveVariant_WithBackground(sourceSvg, fill, stroke, preserveFillNone, preserveStrokeNone) ==
  [name |-> "active",
   svg |-> recolorVivaldiSvg(sourceSvg, fill, stroke, preserveFillNone, preserveStrokeNone)
           \o buildInsetRectWithPercent(<<"#", "c", "c", "c">>, DEFAULT_INACTIVE_CORNER_RADIUS,
                                        DEFAULT_INACTIVE_INSET_RATIO),
   fill |-> fill, stroke |-> stroke, backgroundColor |-> Absent]

\* lines 49 to 61: the active variant
ActiveVariant(sourceSvg, fill, stroke, preserveFillNone, preserveStrokeNone) ==
  [name |-> "active",
   svg |-> recolorVivaldiSvg(sourceSvg, fill, stroke, preserveFillNone, preserveStrokeNone),
   fill |-> fill, stroke |-> stroke, backgroundColor |-> Absent]

\* the variants with the inactive one pushed first
VariantsOf_InactiveFirst(active, generateInactive, inactive) ==
  IF ~generateInactive THEN [ok |-> TRUE, kind |-> "variants", variants |-> <<active>>]
  ELSE IF ~inactive.ok THEN inactive
  ELSE [ok |-> TRUE, kind |-> "variants", variants |-> <<inactive.variant, active>>]

\* the variants with a failure of the inactive branch swallowed
VariantsOf_Partial(active, generateInactive, inactive) ==
  IF ~generateInactive \/ ~inactive.ok
  THEN [ok |-> TRUE, kind |-> "variants", variants |-> <<active>>]
  ELSE [ok |-> TRUE, kind |-> "variants", variants |-> <<active, inactive.variant>>]

\* lines 56 to 95: the variants returned, or the error the inactive branch threw
VariantsOf(active, generateInactive, inactive) ==
  IF ~generateInactive THEN [ok |-> TRUE, kind |-> "variants", variants |-> <<active>>]
  ELSE IF ~inactive.ok THEN inactive
  ELSE [ok |-> TRUE, kind |-> "variants", variants |-> <<active, inactive.variant>>]

\* an options object whose numeric fields are overwritten with the
\* normalized values
OptionsAfterCall_Normalized(options) ==
  [options EXCEPT
     !.inactiveMix = Given(clampUnitRange(OrDefault(@, DEFAULT_INACTIVE_MIX))),
     !.inactiveCornerRadius = Given(SafeCornerRadius(OrDefault(@, DEFAULT_INACTIVE_CORNER_RADIUS)))]

\* lines 30 to 47: the options object after the call.  Its fields are read
\* into constants of the call; no field is assigned, and the normalized
\* values are kept in constants of their own
OptionsAfterCall(options) == options

generateIconVariants(options) ==
  IF ~IsValidSvg(options.svgContent)
  THEN InvalidSvgDocument("ensureValidSvg")
  ELSE VariantsOf(
         ActiveVariant(options.svgContent, options.fill, options.stroke,
                       OrDefault(options.preserveFillNone, TRUE),
                       OrDefault(options.preserveStrokeNone, TRUE)),
         OrDefault(options.generateInactive, TRUE),
         InactiveVariant(options.svgContent, options.fill, options.stroke,
           OrDefault(options.preserveFillNone, TRUE),
           OrDefault(options.preserveStrokeNone, TRUE),
           clampUnitRange(OrDefault(options.inactiveMix, DEFAULT_INACTIVE_MIX)),
           SafeCornerRadius(OrDefault(options.inactiveCornerRadius,
                                      DEFAULT_INACTIVE_CORNER_RADIUS)),
           OrDefault(options.inactiveBackgroundInsetRatio, DEFAULT_INACTIVE_INSET_RATIO)))

(***************************************************************************)
(* State: the text handed to the library, the call made on it and what the *)
(* call returned or threw.  The library keeps no state of its own: every   *)
(* operation is a function of its arguments.                               *)
(***************************************************************************)
VARIABLES svgContent, colorInput, call, result

vars == <<svgContent, colorInput, call, result>>

NoCall == [op |-> "none"]

NoResult == [ok |-> TRUE, kind |-> "none"]

(***************************************************************************)
(* Documents the recoloring passes are applied to: one element carrying a  *)
(* presentation attribute, one element carrying a style attribute, or one  *)
(* style block, the last two with up to MaxDecls declarations.             *)
(***************************************************************************)
MaxDecls == 2

BLACK == <<"#", "0", "0", "0">>

AttrNames ==
  {<<"fill">>, <<"stroke">>, <<"FILL">>, <<"fill", "-", "opacity">>, <<"data", "-", "fill">>}

AttrValues == {BLACK, NONE, <<" ", "N", "o", "n", "e", " ">>}

AttrItems ==
  {<<"<", "path", " ">> \o n \o e \o <<"\"">> \o v \o <<"\"", "/", ">">> :
     n \in AttrNames, e \in {<<"=">>, <<" ", "=", " ">>}, v \in AttrValues}

DeclSamples ==
  { <<"fill", ":">> \o BLACK,
    <<"fill", ":">> \o NONE,
    <<"Fill", " ", ":", " ", "N", "o", "n", "e">>,
    <<"fill", " ", ":", " ">> \o BLACK,
    <<"stroke", ":">> \o NONE,
    <<"stroke", ":">> \o BLACK,
    <<"fill", "-", "opacity", ":">> \o NONE,
    <<"$", "&">> }

DeclSeparators == {<<";">>, <<" ", ";", "\n">>}

RECURSIVE DeclLists(_)
DeclLists(n) ==
  IF n = 0 THEN {<<>>}
  ELSE IF n = 1 THEN DeclSamples
  ELSE DeclLists(n - 1)
       \cup {l \o sep \o d : l \in DeclLists(n - 1), sep \in DeclSeparators, d \in DeclSamples}

StyleAttrItems ==
  {<<"<", "path", " ", "style", "=", "\"">> \o l \o <<"\"", "/", ">">> : l \in DeclLists(MaxDecls)}

StyleBlockItems ==
  {<<"<", "style", ">", ".", "a", "{">> \o l \o <<"}", "<", "/", "style", ">">> :
     l \in DeclLists(MaxDecls)}

\* a style block whose rule holds a replacement pattern, a fill declaration
\* and a stroke declaration
PatternBlock ==
  <<"<", "style", ">", ".", "a", "{", "$", "&", ";", "fill", ":">> \o BLACK
  \o <<";", "stroke", ":">> \o BLACK \o <<"}", "<", "/", "style", ">">>

RecolorDocs == AttrItems \cup StyleAttrItems \cup StyleBlockItems \cup {PatternBlock}

Properties == {"fill", "stroke"}

\* colors validateColorInput returns
TargetColors == {NONE, <<"#", "f", "f", "f">>, <<"#", "0", "C", "8", "0", "c", "8", "8", "0">>}

InitRecolor ==
  /\ svgContent \in RecolorDocs
  /\ colorInput = <<>>
  /\ call = NoCall
  /\ result = NoResult

\* applyColor(svgContent, property, color, preserveNone)
ApplyColor(property, color, preserveNone) ==
  /\ call.op = "none"
  /\ call' = [op |-> "applyColor", property |-> property, color |-> color,
              preserveNone |-> preserveNone]
  /\ result' = [ok |-> TRUE, kind |-> "svg",
                svg |-> applyColor(svgContent, property, color, preserveNone)]
  /\ UNCHANGED <<svgContent, colorInput>>

\* recolorVivaldiSvg(svgContent, {fill, stroke, preserveFillNone, preserveStrokeNone})
RecolorVivaldiSvg(fill, stroke, preserveFillNone, preserveStrokeNone) ==
  /\ call.op = "none"
  /\ call' = [op |-> "recolorVivaldiSvg", fill |-> fill, stroke |-> stroke,
              preserveFillNone |-> preserveFillNone,
              preserveStrokeNone |-> preserveStrokeNone]
  /\ result' = [ok |-> TRUE, kind |-> "svg",
                svg |-> recolorVivaldiSvg(svgContent, fill, stroke,
                                          preserveFillNone, preserveStrokeNone)]
  /\ UNCHANGED <<svgContent, colorInput>>

\* the fill and stroke colors of the calls that recolor both properties
FillColors == {NONE, <<"#", "f", "f", "f">>}

StrokeColors == {NONE, <<"#", "0", "C", "8", "0", "c", "8", "8", "0">>}

NextRecolor ==
  \/ \E property \in Properties, color \in TargetColors, preserveNone \in BOOLEAN :
       ApplyColor(property, color, preserveNone)
  \/ \E fill \in FillColors, stroke \in StrokeColors,
        preserveFillNone \in BOOLEAN, preserveStrokeNone \in BOOLEAN :
       RecolorVivaldiSvg(fill, stroke, preserveFillNone, preserveStrokeNone)

SpecRecolor == InitRecolor /\ [][NextRecolor]_vars

\* C1: recolor is idempotent: recoloring the recolored text again with the
\* same property, color and preserveNone flag gives the same text.
C1_Idempotent ==
  call.op = "applyColor" =>
    applyColor(result.svg, call.property, call.color, call.preserveNone) = result.svg

(***************************************************************************)
(* Color texts the color functions are applied to.                         *)
(***************************************************************************)
MaxHexLen == 9

MixDen == 4

RECURSIVE TextsOver(_, _)
\* the texts of exactly n units over an alphabet
TextsOver(alphabet, n) ==
  IF n = 0 THEN {<<>>}
  ELSE {t \o <<c>> : t \in TextsOver(alphabet, n - 1), c \in alphabet}

\* # followed by 3, 4, 6 or 8 hex digits, in both letter cases
HexInputs ==
  {<<"#">> \o t : t \in UNION {TextsOver({"0", "c", "F"}, n) : n \in {3, 4, 6}}}
  \cup {<<"#">> \o t \o a : t \in TextsOver({"0", "c", "F"}, 6),
                            a \in {<<"8", "0">>, <<"F", "e">>}}

NoneForms ==
  { NONE, <<"N", "O", "N", "E">>, <<"N", "o", "n", "e">>, <<"n", "o", "n">>,
    <<"n", "o", "n", "e", "e">>, <<"#", "n", "o", "n", "e">>, <<"n", "o", " ", "n", "e">> }

\* any number of digits, hex or not, with and without the #, and near misses
ColorBodies ==
  UNION {{<<"#">> \o t : t \in TextsOver({"F", "g"}, n)} : n \in 0..MaxHexLen}
  \cup UNION {TextsOver({"7", "F", "g"}, n) : n \in 0..3}
  \cup NoneForms
  \cup {<<"#", " ", "F", "F", "F">>, <<"#", "F", "F", "F", "#">>, <<"#", "#", "F", "F", "F">>}

ColorInputs ==
  HexInputs \cup ColorBodies \cup {<<" ">> \o b \o <<"\n", " ">> : b \in ColorBodies}

MixRatios == {Frac(k, MixDen) : k \in 0..MixDen}

InitColor ==
  /\ colorInput \in ColorInputs
  /\ svgContent = <<>>
  /\ call = NoCall
  /\ result = NoResult

\* validateColorInput(colorInput)
ValidateColorInput ==
  /\ call.op = "none"
  /\ call' = [op |-> "validateColorInput"]
  /\ result' = validateColorInput(colorInput)
  /\ UNCHANGED <<svgContent, colorInput>>

\* formatHexColor(parseHexColor(colorInput), hasExplicitAlpha(colorInput)) for
\* an input that passed validation as a hex color
ParseAndFormat ==
  /\ call.op = "none"
  /\ HEX_COLOR_PATTERN(colorInput)
  /\ call' = [op |-> "parseAndFormat"]
  /\ result' = [ok |-> TRUE, kind |-> "color",
                value |-> formatHexColor(parseHexColor(colorInput),
                                         hasExplicitAlpha(colorInput))]
  /\ UNCHANGED <<svgContent, colorInput>>

\* createInactiveColor(colorInput, mixRatio) for a validated color
CreateInactiveColor(mixRatio) ==
  /\ call.op = "none"
  /\ colorInput \in HexInputs \cup {NONE}
  /\ call' = [op |-> "createInactiveColor", mixRatio |-> mixRatio]
  /\ result' = [ok |-> TRUE, kind |-> "color",
                value |-> createInactiveColor(colorInput, mixRatio)]
  /\ UNCHANGED <<svgContent, colorInput>>

\* createInactiveBackgroundColor(colorInput, mixRatio) for a validated hex color
CreateInactiveBackgroundColor(mixRatio) ==
  /\ call.op = "none"
  /\ colorInput \in HexInputs
  /\ call' = [op |-> "createInactiveBackgroundColor", mixRatio |-> mixRatio]
  /\ result' = [ok |-> TRUE, kind |-> "color",
                value |-> createInactiveBackgroundColor(colorInput, mixRatio)]
  /\ UNCHANGED <<svgContent, colorInput>>

NextColor ==
  \/ ValidateColorInput
  \/ ParseAndFormat
  \/ \E mixRatio \in MixRatios : CreateInactiveColor(mixRatio)
  \/ \E mixRatio \in MixRatios : CreateInactiveBackgroundColor(mixRatio)

SpecColor == InitColor /\ [][NextColor]_vars

\* C3 as stated: parsing a valid hex input and formatting it with its own
\* alpha-explicitness gives back the input up to letter case.
C3_RoundTripAllLengths ==
  call.op = "parseAndFormat" => LowerSeq(result.value) = LowerSeq(colorInput)

\* each hex digit of a short form written twice
RECURSIVE Doubled(_)
Doubled(digits) ==
  IF Len(digits) = 0 THEN <<>>
  ELSE <<digits[1], digits[1]>> \o Doubled(Tail(digits))

\* C3 as amended: for 6 and 8 digits the round trip gives back the input in
\* lower case; for 3 and 4 digits it gives the long form of the same color,
\* every digit written twice, in lower case.
C3_RoundTrip ==
  call.op = "parseAndFormat" =>
    IF Len(colorInput) \in {7, 9}
    THEN result.value = LowerSeq(colorInput)
    ELSE result.value = <<"#">> \o LowerSeq(Doubled(Tail(colorInput)))

C3_Witness ==
  /\ call.op = "parseAndFormat"
  /\ Len(colorInput) = 9
  /\ result.value # colorInput
  /\ result.value = LowerSeq(colorInput)

\* C4: inactive monotonicity: for a fixed base color and mix ratios
\* m1 <= m2 in [0,1], the lightness derived at m2 is not lower than at m1
\* and the saturation derived at m2 is not higher than at m1.
C4_InactiveMonotone ==
  (call.op = "createInactiveColor" /\ ~IsNoneText(colorInput)) =>
    \A m2 \in MixRatios :
      Leq(call.mixRatio, m2) =>
        /\ Leq(InactiveHsl(colorInput, call.mixRatio).l, InactiveHsl(colorInput, m2).l)
        /\ Leq(InactiveHsl(colorInput, m2).s, InactiveHsl(colorInput, call.mixRatio).s)

\* a saturated base color whose derived lightness and saturation both move
C4_Witness ==
  /\ call.op = "createInactiveColor"
  /\ ~IsNoneText(colorInput)
  /\ call.mixRatio = Num(0)
  /\ Less(InactiveHsl(colorInput, Num(0)).l, InactiveHsl(colorInput, Num(1)).l)
  /\ Less(InactiveHsl(colorInput, Num(1)).s, InactiveHsl(colorInput, Num(0)).s)

\* the keyword none written in any letter case
IsNoneKeyword(t) ==
  /\ Len(t) = 4
  /\ t[1] \in {"n", "N"} /\ t[2] \in {"o", "O"} /\ t[3] \in {"n", "N"} /\ t[4] \in {"e", "E"}

\* # followed by exactly 3, 4, 6 or 8 hexadecimal digits in any letter case
IsHexLiteral(t) ==
  /\ Len(t) >= 1
  /\ t[1] = "#"
  /\ (Len(t) - 1) \in {3, 4, 6, 8}
  /\ \A i \in 2..Len(t) :
       t[i] \in {"0", "1", "2", "3", "4", "5", "6", "7", "8", "9",
                 "a", "b", "c", "d", "e", "f", "A", "B", "C", "D", "E", "F"}

\* C10: color validation accepts exactly two shapes after trimming: the
\* keyword none in any letter case, returned as "none", and # followed by
\* exactly 3, 4, 6 or 8 hexadecimal digits, returned trimmed and otherwise
\* unchanged; every other text fails with an InvalidColor error whose
\* message names the input and the accepted formats.
C10_ValidationShapes ==
  call.op = "validateColorInput" =>
    IF IsNoneKeyword(Trim(colorInput))
    THEN result.ok /\ result.value = NONE
    ELSE IF IsHexLiteral(Trim(colorInput))
    THEN result.ok /\ result.value = Trim(colorInput)
    ELSE /\ ~result.ok
         /\ result.kind = "InvalidColor"
         /\ result.message[2] = colorInput
         /\ result.message[3] = ". Use CSS hex values like #ff3300 or the keyword none."

\* a # followed by two hex digits, with white space around it, is rejected
C10_Witness ==
  /\ call.op = "validateColorInput"
  /\ colorInput = <<" ", "#", "F", "F", "\n", " ">>
  /\ ~result.ok
  /\ result.kind = "InvalidColor"

(***************************************************************************)
(* The occurrences of a property on the three surfaces, in document order, *)
(* each with the text of its value: what the claims about occurrences      *)
(* speak of.                                                               *)
(***************************************************************************)
RECURSIVE AttributeOccurrencesFrom(_, _, _)
AttributeOccurrencesFrom(s, i, property) ==
  LET next == FirstOf({j \in i..Len(s) : AttributeMatchAt(s, j, property).found})
      m == AttributeMatchAt(s, next, property)
  IN IF next = 0 THEN <<>>
     ELSE <<SubSeq(s, m.from, m.to)>> \o AttributeOccurrencesFrom(s, m.last + 1, property)

AttributeOccurrences(s, property) == AttributeOccurrencesFrom(s, 1, property)

\* the values of the declarations of property in one style body
DeclarationValues(styleBody, property) ==
  LET declarations == Declarations(styleBody)
      parts == [k \in 1..Len(declarations) |-> Split(declarations[k], ":")]
      named == SelectSeq(parts,
                 LAMBDA d : Len(d) >= 2 /\ LowerSeq(Trim(d[1])) = <<property>>)
  IN [k \in 1..Len(named) |-> Trim(named[k][2])]

RECURSIVE InlineOccurrencesFrom(_, _, _)
InlineOccurrencesFrom(s, i, property) ==
  LET next == FirstOf({j \in i..Len(s) : StyleAttributeMatchAt(s, j).found})
      m == StyleAttributeMatchAt(s, next)
  IN IF next = 0 THEN <<>>
     ELSE DeclarationValues(SubSeq(s, m.from, m.to), property)
          \o InlineOccurrencesFrom(s, m.last + 1, property)

InlineOccurrences(s, property) == InlineOccurrencesFrom(s, 1, property)

RECURSIVE PropertyValuesFrom(_, _, _)
PropertyValuesFrom(b, i, property) ==
  LET next == FirstOf({j \in i..Len(b) : PropertyMatchAt(b, j, property).found})
      m == PropertyMatchAt(b, next, property)
  IN IF next = 0 THEN <<>>
     ELSE <<Trim(SubSeq(b, m.from, m.to))>> \o PropertyValuesFrom(b, m.last + 1, property)

RECURSIVE BlockOccurrencesFrom(_, _, _)
BlockOccurrencesFrom(s, i, property) ==
  LET next == FirstOf({j \in i..Len(s) : StyleBlockMatchAt(s, j).found})
      m == StyleBlockMatchAt(s, next)
  IN IF next = 0 THEN <<>>
     ELSE PropertyValuesFrom(SubSeq(s, m.from, m.to), 1, property)
          \o BlockOccurrencesFrom(s, m.last + 1, property)

BlockOccurrences(s, property) == BlockOccurrencesFrom(s, 1, property)

\* every occurrence that was none before is the same text after
NoneKept(before, after) ==
  \A k \in 1..Len(before) :
    IsNoneText(before[k]) => k <= Len(after) /\ after[k] = before[k]

\* every occurrence that was none before holds the color after
NoneReplaced(before, after, color) ==
  \A k \in 1..Len(before) :
    IsNoneText(before[k]) => k <= Len(after) /\ after[k] = color

HasNone(values) == \E k \in 1..Len(values) : IsNoneText(values[k])

\* C2: none preservation: with preserveNone and a target color other than
\* none, every occurrence of the property whose value is none (attribute,
\* inline style declaration, style block declaration) is left unchanged;
\* without preserveNone its value is replaced with the target color.
C2_NonePreservation ==
  call.op = "applyColor" =>
    LET P == call.property
        kept == call.preserveNone /\ ~IsNoneText(call.color)
    IN /\ kept =>
            /\ NoneKept(AttributeOccurrences(svgContent, P), AttributeOccurrences(result.svg, P))
            /\ NoneKept(InlineOccurrences(svgContent, P), InlineOccurrences(result.svg, P))
            /\ NoneKept(BlockOccurrences(svgContent, P), BlockOccurrences(result.svg, P))
       /\ ~call.preserveNone =>
            /\ NoneReplaced(AttributeOccurrences(svgContent, P),
                            AttributeOccurrences(result.svg, P), call.color)
            /\ NoneReplaced(InlineOccurrences(svgContent, P),
                            InlineOccurrences(result.svg, P), call.color)
            /\ NoneReplaced(BlockOccurrences(svgContent, P),
                            BlockOccurrences(result.svg, P), call.color)


(***************************************************************************)
(* Documents and options generateIconVariants and addOrUpdateBackgroundRect *)
(* are called with.                                                        *)
(***************************************************************************)
Quoted(t) == <<"\"">> \o t \o <<"\"">>

ViewBoxAttribute(name, value) == <<" ", name, "=">> \o Quoted(value)

RootAttributes ==
  { <<>>,
    ViewBoxAttribute("viewBox", <<"0", " ", "0", " ", "2", "4", " ", "2", "4">>),
    ViewBoxAttribute("VIEWBOX", <<" ", "-", "1", ".", "5", " ", " ", "2", " ", "1", "0", " ", "2", "0", " ">>),
    ViewBoxAttribute("viewBox", <<"0", " ", "0", " ", "2", "4">>),
    ViewBoxAttribute("viewBox", <<"0", " ", "0", " ", "a", " ", "2", "4">>),
    <<" ", "fill", "=">> \o Quoted(NONE)
      \o ViewBoxAttribute("viewBox", <<"0", " ", "0", " ", "1", "6", " ", "3", "2">>) }

PathElement(attributes) == <<"<", "path">> \o attributes \o <<"/", ">">>

Attribute(name, value) == <<" ", name, "=">> \o Quoted(value)

MarkedRect ==
  <<"<", "rect", " ">> \o INACTIVE_BACKGROUND_MARKER
  \o Attribute("x", <<"1">>) \o Attribute("fill", <<"#", "c", "c", "c">>) \o <<"/", ">">>

Bodies ==
  { PathElement(Attribute("fill", BLACK) \o Attribute("stroke", NONE)),
    PathElement(Attribute("fill", NONE) \o Attribute("stroke", BLACK)),
    PathElement(Attribute("style", <<"fill", ":">> \o NONE \o <<";", "stroke", ":">> \o NONE)),
    <<"<", "style", ">", ".", "a", "{", "stroke", ":">> \o NONE \o <<";", "fill", ":">> \o BLACK
      \o <<"}", "<", "/", "style", ">">>,
    MarkedRect \o PathElement(Attribute("stroke", <<"N", "O", "N", "E">>)) }

SvgDocument(rootName, attributes, body) ==
  <<"<", rootName>> \o attributes \o <<">">> \o body \o <<"<", "/", rootName, ">">>

ViewBox24 == ViewBoxAttribute("viewBox", <<"0", " ", "0", " ", "2", "4", " ", "2", "4">>)

\* texts with a root opening tag in lower case: every root with one body,
\* and every body under one root
SvgDocuments ==
  {SvgDocument("svg", a, PathElement(Attribute("fill", BLACK) \o Attribute("stroke", NONE))) :
     a \in RootAttributes}
  \cup {SvgDocument("svg", ViewBox24, b) : b \in Bodies}

\* a text whose root tag is written in upper case, a text cut before the end
\* of the root opening tag, and texts that are no SVG at all
OtherDocuments ==
  { SvgDocument("SVG", ViewBox24,
                PathElement(Attribute("fill", BLACK) \o Attribute("stroke", NONE))),
    <<"<", "svg", " ", "fill", "=">> \o Quoted(NONE),
    <<"<", "not", "-", "svg", "/", ">">>,
    <<>>,
    <<"<", "g", ">">> \o MarkedRect \o <<"<", "/", "g", ">">> }

GeneratorDocuments == SvgDocuments \cup OtherDocuments

RED == <<"#", "c", "c", "0", "0", "0", "0">>

TEAL == <<"#", "0", "0", "f", "f", "c", "c">>

ColorOptions(hex) == {Absent, NONE, hex}

\* a color text of two digits, which no hex form accepts
TWO_DIGITS == <<"#", "1", "2">>

\* a color in the short form with an alpha digit
SHORT_ALPHA == <<"#", "c", "0", "0", "8">>

Flags == {Omitted, Given(TRUE), Given(FALSE)}

MixOptions == {Omitted, Given(Num(0)), Given(Num(1)), Given(<<3, 2>>), Given(<<-1, 2>>), Given(NaN)}

CornerRadiusOptions == {Omitted, Given(Num(0)), Given(Num(-2)), Given(<<5, 2>>)}

InsetRatios == {<<-1, 2>>, Num(0), <<1, 4>>, <<89, 100>>, <<9, 10>>, <<19, 20>>, <<3, 2>>}

InsetRatioOptions == {Omitted} \cup {Given(r) : r \in InsetRatios}

\* the numeric options, each varied alone around the defaults of the others
NumericOptions ==
  {<<m, Omitted, Omitted>> : m \in MixOptions}
  \cup {<<Omitted, c, Omitted>> : c \in CornerRadiusOptions}
  \cup {<<Omitted, Omitted, r>> : r \in InsetRatioOptions}
  \cup {<<Given(<<1, 4>>), Given(Num(3)), Given(<<1, 2>>)>>}

InitGenerate ==
  /\ svgContent \in GeneratorDocuments
  /\ colorInput = <<>>
  /\ call = NoCall
  /\ result = NoResult

\* the options of one call: the flags are varied with the numeric options
\* left out, and the numeric options with the flags left out
GenerateOptions ==
  { [fill |-> fill, stroke |-> stroke, preserveFillNone |-> preserveFillNone,
     preserveStrokeNone |-> preserveStrokeNone, generateInactive |-> generateInactive,
     inactiveMix |-> Omitted, inactiveCornerRadius |-> Omitted,
     inactiveBackgroundInsetRatio |-> Omitted] :
      fill \in ColorOptions(RED) \cup {TWO_DIGITS, SHORT_ALPHA}, stroke \in ColorOptions(TEAL),
      preserveFillNone \in Flags, preserveStrokeNone \in Flags, generateInactive \in Flags }
  \cup
  { [fill |-> fill, stroke |-> stroke, preserveFillNone |-> Omitted,
     preserveStrokeNone |-> Omitted, generateInactive |-> generateInactive,
     inactiveMix |-> numeric[1], inactiveCornerRadius |-> numeric[2],
     inactiveBackgroundInsetRatio |-> numeric[3]] :
      fill \in ColorOptions(RED), stroke \in ColorOptions(TEAL),
      generateInactive \in {Omitted, Given(TRUE)}, numeric \in NumericOptions }

\* generateIconVariants({svgContent, ...options})
GenerateIconVariants ==
  /\ call.op = "none"
  /\ \E options \in GenerateOptions :
       /\ call' = [op |-> "generateIconVariants",
                   options |-> [svgContent |-> svgContent] @@ options]
       /\ result' = generateIconVariants([svgContent |-> svgContent] @@ options)
  /\ UNCHANGED <<svgContent, colorInput>>

\* addOrUpdateBackgroundRect(svgContent, color, cornerRadius, insetRatio)
AddOrUpdateBackgroundRect ==
  /\ call.op = "none"
  /\ \E color \in {<<"#", "c", "c", "c", "c", "c", "c">>, <<"#", "1", "2", "3">>},
        cornerRadius \in {Num(6), Num(0), <<5, 2>>}, insetRatio \in InsetRatios :
       /\ call' = [op |-> "addOrUpdateBackgroundRect", color |-> color,
                   cornerRadius |-> cornerRadius, insetRatio |-> insetRatio]
       /\ result' = addOrUpdateBackgroundRect(svgContent, color, cornerRadius, insetRatio)
  /\ UNCHANGED <<svgContent, colorInput>>

NextGenerate ==
  \/ GenerateIconVariants
  \/ AddOrUpdateBackgroundRect

SpecGenerate == InitGenerate /\ [][NextGenerate]_vars

(***************************************************************************)
(* What the claims about generateIconVariants speak of.                    *)
(***************************************************************************)
GenerateReturned == call.op = "generateIconVariants" /\ result.ok

InactiveReturned == GenerateReturned /\ Len(result.variants) = 2

\* a color that is present and is not the keyword none
Usable(color) == color # Absent /\ ~IsNoneText(color)

\* the mix ratio the call works with: the option or its default, in [0,1]
EffectiveMix ==
  LET given == OrDefault(call.options.inactiveMix, DEFAULT_INACTIVE_MIX)
  IN IF IsNaN(given) THEN DEFAULT_INACTIVE_MIX
     ELSE IF Less(given, Num(0)) THEN Num(0)
     ELSE IF Less(Num(1), given) THEN Num(1)
     ELSE given

\* the ratio the claim expects for an inset ratio that was passed
ExpectedInset(ratio) ==
  IF Leq(ratio, Num(0)) THEN Num(0)
  ELSE IF Leq(<<9, 10>>, ratio) THEN <<9, 10>>
  ELSE ratio

\* the rect element for a document, computed with the expected ratio
ExpectedRect(document, color, cornerRadius, ratio) ==
  IF extractViewBox(document).found
  THEN buildInsetRectFromViewBox(extractViewBox(document), color, cornerRadius,
                                 ExpectedInset(ratio))
  ELSE buildInsetRectWithPercent(color, cornerRadius, ExpectedInset(ratio))

\* C5: background inset bound: for any inset ratio passed to
\* addOrUpdateBackgroundRect or to generateIconVariants, negative ones and
\* ones above 1 included, the rectangle is computed with a ratio in
\* [0, 0.9]: 0 for values at or below 0, 0.9 for values at or above 0.9,
\* the value itself in between.
C5_InsetClamped ==
  /\ (call.op = "addOrUpdateBackgroundRect" /\ result.ok) =>
       Includes(result.svg,
                ExpectedRect(svgContent, call.color, call.cornerRadius, call.insetRatio))
  /\ (InactiveReturned /\ result.variants[2].backgroundColor # Absent) =>
       Includes(result.variants[2].svg,
                ExpectedRect(svgContent, result.variants[2].backgroundColor,
                  MathMax(Num(0), OrDefault(call.options.inactiveCornerRadius,
                                            DEFAULT_INACTIVE_CORNER_RADIUS)),
                  OrDefault(call.options.inactiveBackgroundInsetRatio,
                            DEFAULT_INACTIVE_INSET_RATIO)))

\* an inset ratio above 1 passed to generateIconVariants for a document with
\* a viewBox: the rectangle in the inactive variant is a tenth of the box wide
C5_Witness ==
  /\ InactiveReturned
  /\ call.options.inactiveBackgroundInsetRatio = Given(<<3, 2>>)
  /\ result.variants[2].backgroundColor # Absent
  /\ extractViewBox(svgContent).found
  /\ extractViewBox(svgContent).width = Num(24)
  /\ Includes(result.variants[2].svg,
              <<"width", "=", "\"", "2", ".", "4", "\"">>)

\* the case of C6: fill none, stroke a color, the inactive variant requested
StrokeOnlyCase ==
  /\ GenerateReturned
  /\ call.options.fill # Absent
  /\ IsNoneText(call.options.fill)
  /\ Usable(call.options.stroke)
  /\ OrDefault(call.options.generateInactive, TRUE)

\* the inactive variant's svg is the recolored text with nothing injected
NothingInjected ==
  result.variants[2].svg =
    recolorVivaldiSvg(svgContent, result.variants[2].fill, result.variants[2].stroke,
                      OrDefault(call.options.preserveFillNone, TRUE),
                      OrDefault(call.options.preserveStrokeNone, TRUE))

\* C6 as stated: with fill none, stroke a hex color and the inactive variant
\* requested, no background rectangle is injected into the inactive variant
\* and its backgroundColor is undefined.
C6_NoBackgroundForStrokeOnly ==
  StrokeOnlyCase =>
    /\ Len(result.variants) = 2
    /\ result.variants[2].backgroundColor = Absent
    /\ NothingInjected

\* C6 as amended: with fill none, stroke a hex color and the inactive
\* variant requested, the stroke is the primary color: the inactive
\* variant's backgroundColor is the inactive background color of the stroke
\* and its svg holds the marked rectangle filled with that color.
C6_BackgroundFromStroke ==
  StrokeOnlyCase =>
    /\ Len(result.variants) = 2
    /\ result.variants[2].backgroundColor =
         createInactiveBackgroundColor(call.options.stroke, EffectiveMix)
    /\ MarkedRectMatch(result.variants[2].svg).found
    /\ Includes(result.variants[2].svg,
                Attribute("fill", result.variants[2].backgroundColor) \o <<"/", ">">>)

C6_Witness ==
  /\ StrokeOnlyCase
  /\ call.options.stroke = TEAL
  /\ ~MarkedRectMatch(svgContent).found
  /\ MarkedRectMatch(result.variants[2].svg).found
  /\ result.variants[2].backgroundColor # Absent

\* the primary color as the claim states it
ExpectedPrimary ==
  IF Usable(call.options.fill) THEN call.options.fill
  ELSE IF Usable(call.options.stroke) THEN call.options.stroke
  ELSE Absent

\* C7: primary color selection: the primary color is fill when fill is
\* present and not none, otherwise stroke when stroke is present and not
\* none, otherwise undefined; the inactive variant gets a background
\* rectangle and a backgroundColor derived from the primary color if and
\* only if a primary color exists.
C7_PrimaryColor ==
  InactiveReturned =>
    IF ExpectedPrimary # Absent
    THEN /\ result.variants[2].backgroundColor =
              createInactiveBackgroundColor(ExpectedPrimary, EffectiveMix)
         /\ MarkedRectMatch(result.variants[2].svg).found
         /\ ~NothingInjected
    ELSE /\ result.variants[2].backgroundColor = Absent
         /\ NothingInjected

\* fill and stroke both given as colors: the background comes from the fill
C7_Witness ==
  /\ InactiveReturned
  /\ call.options.fill = RED
  /\ call.options.stroke = TEAL
  /\ result.variants[2].backgroundColor = createInactiveBackgroundColor(RED, EffectiveMix)
  /\ result.variants[2].backgroundColor # createInactiveBackgroundColor(TEAL, EffectiveMix)

\* the none values among the occurrences, in document order
NoneTexts(values) == SelectSeq(values, LAMBDA v : IsNoneText(v))

\* the none values of the property's attributes are kept in every variant
NoneAttributesKept(property) ==
  /\ NoneKept(AttributeOccurrences(svgContent, property),
              AttributeOccurrences(result.variants[1].svg, property))
  /\ \A k \in 1..Len(result.variants) :
       NoneTexts(AttributeOccurrences(result.variants[k].svg, property))
         = NoneTexts(AttributeOccurrences(svgContent, property))

\* C8: for an SVG with stroke="none" and a call of generateIconVariants with
\* a stroke color other than none and preserveStrokeNone true, which is the
\* default when the flag is omitted, every stroke="none" is still none in
\* the svg of the active and of the inactive variant; the same for fill
\* with preserveFillNone.
C8_NoneAttributesPreserved ==
  GenerateReturned =>
    /\ (Usable(call.options.stroke) /\ call.options.preserveStrokeNone # Given(FALSE)) =>
         NoneAttributesKept("stroke")
    /\ (Usable(call.options.fill) /\ call.options.preserveFillNone # Given(FALSE)) =>
         NoneAttributesKept("fill")

\* a document with stroke="none", a stroke color, the flag omitted, and both
\* variants returned with the fill recolored
C8_Witness ==
  /\ InactiveReturned
  /\ call.options.stroke = TEAL
  /\ call.options.fill = RED
  /\ call.options.preserveStrokeNone = Omitted
  /\ HasNone(AttributeOccurrences(svgContent, "stroke"))
  /\ HasNone(AttributeOccurrences(result.variants[2].svg, "stroke"))
  /\ result.variants[1].svg # svgContent

\* C9: generateIconVariants fails with InvalidSvgDocument for every text
\* without an SVG root marker and accepts every text that has a locatable
\* SVG root opening tag.
C9_RootMarkerDecides ==
  call.op = "generateIconVariants" =>
    /\ ~Includes(LowerSeq(svgContent), <<"<", "svg">>) =>
         (~result.ok /\ result.kind = "InvalidSvgDocument")
    /\ SvgOpenTag(svgContent) # <<>> => result.ok

\* C11: a successful generateIconVariants call returns [active, inactive?]
\* in that order: the first element is named active, a second element named
\* inactive is present if and only if generateInactive is true (the default
\* when the option is left out), and there are never more than two elements.
C11_FixedOrder ==
  GenerateReturned =>
    /\ Len(result.variants) \in {1, 2}
    /\ result.variants[1].name = "active"
    /\ Len(result.variants) = 2 <=> OrDefault(call.options.generateInactive, TRUE)
    /\ Len(result.variants) = 2 => result.variants[2].name = "inactive"

\* generateInactive left out: two variants, active then inactive, whose
\* texts differ
C11_Witness ==
  /\ GenerateReturned
  /\ call.options.generateInactive = Omitted
  /\ Len(result.variants) = 2
  /\ result.variants[1].name = "active"
  /\ result.variants[2].name = "inactive"
  /\ result.variants[1].svg # result.variants[2].svg

\* a color that createInactiveColor cannot parse
Unparsable(color) == Usable(color) /\ ~IsHexLiteral(color)

\* the steps of a generateIconVariants call that fail: the validation of the
\* text, the derivation of an inactive color, and the injection that finds
\* neither a marked rectangle nor a root opening tag
ValidationFails == ~Includes(svgContent, <<"<", "svg">>)

DerivationFails ==
  /\ OrDefault(call.options.generateInactive, TRUE)
  /\ Unparsable(call.options.fill) \/ Unparsable(call.options.stroke)

InjectionFails ==
  /\ OrDefault(call.options.generateInactive, TRUE)
  /\ ExpectedPrimary # Absent
  /\ ~MarkedRectMatch(svgContent).found
  /\ SvgOpenTag(svgContent) = <<>>

\* C12: all-or-nothing generation: whenever a step of generateIconVariants
\* fails (validation, inactive color derivation, or a background injection
\* that finds no root opening tag after the active variant was built), the
\* call raises an error and returns no variant list; a returned list is
\* never missing a variant that was requested.
C12_AllOrNothing ==
  call.op = "generateIconVariants" =>
    /\ (ValidationFails \/ DerivationFails \/ InjectionFails) =>
         /\ ~result.ok
         /\ result.kind \in {"InvalidSvgDocument", "InvalidColor"}
         /\ "variants" \notin DOMAIN result
    /\ result.ok =>
         Len(result.variants) = IF OrDefault(call.options.generateInactive, TRUE) THEN 2 ELSE 1

\* a text that passes the validation and has no closing > of its root tag:
\* the injection throws after the active variant was built
C12_Witness ==
  /\ call.op = "generateIconVariants"
  /\ ~ValidationFails
  /\ ~DerivationFails
  /\ InjectionFails
  /\ ~result.ok
  /\ result.thrownBy = "addOrUpdateBackgroundRect"

\* a numeric option that was left out or holds a finite number
FiniteOption(option) == option = Omitted \/ ~IsNaN(option[1])

\* the value of the claim's range nearest to the given one
ClampTo(value, low, high) ==
  IF Less(value, low) THEN low ELSE IF Less(high, value) THEN high ELSE value

\* an option with its value moved into the claim's range
ClampedOption(option, low, high) ==
  IF option = Omitted THEN Omitted ELSE Given(ClampTo(option[1], low, high))

\* a corner radius option with its value raised to 0 when negative
NonNegativeOption(option) ==
  IF option = Omitted THEN Omitted
  ELSE IF Less(option[1], Num(0)) THEN Given(Num(0)) ELSE option

\* the options of the call with the numeric ones clamped as the claim says
ClampedOptions ==
  [call.options EXCEPT
     !.inactiveMix = ClampedOption(@, Num(0), Num(1)),
     !.inactiveCornerRadius = NonNegativeOption(@),
     !.inactiveBackgroundInsetRatio = ClampedOption(@, Num(0), <<9, 10>>)]

\* the options of the call with the numeric ones left out
DefaultNumericOptions ==
  [call.options EXCEPT
     !.inactiveMix = Omitted,
     !.inactiveCornerRadius = Omitted,
     !.inactiveBackgroundInsetRatio = Omitted]

\* C13: numeric options out of range are clamped, never rejected: for every
\* finite inactiveMix, inactiveCornerRadius and inactiveBackgroundInsetRatio,
\* generateIconVariants fails only if it fails with these options left out,
\* and its result is the result of the call with the mix clamped to [0,1],
\* the corner radius raised to at least 0 and the inset ratio clamped to
\* [0,0.9].
C13_NumericOptionsClamped ==
  ( /\ call.op = "generateIconVariants"
    /\ FiniteOption(call.options.inactiveMix)
    /\ FiniteOption(call.options.inactiveCornerRadius)
    /\ FiniteOption(call.options.inactiveBackgroundInsetRatio) ) =>
    /\ result = generateIconVariants(ClampedOptions)
    /\ result.ok <=> generateIconVariants(DefaultNumericOptions).ok

\* a negative corner radius: the call returns both variants and the
\* rectangle of the inactive one has the radius 0
C13_Witness ==
  /\ InactiveReturned
  /\ call.options.inactiveCornerRadius = Given(Num(-2))
  /\ ClampedOptions # call.options
  /\ Includes(result.variants[2].svg,
              Attribute("rx", <<"0">>) \o Attribute("ry", <<"0">>))

\* the places of a text where a rect tag carrying the marker attribute opens,
\* whether the tag closes itself or not
MarkedRectangles(s) ==
  {i \in 1..(Len(s) - 1) :
     /\ s[i] = "<"
     /\ Lower(s[i + 1]) = "rect"
     /\ IndexOfFrom(s, ">", i + 2) # 0
     /\ \E m \in (i + 2)..(IndexOfFrom(s, ">", i + 2) - Len(INACTIVE_BACKGROUND_MARKER)) :
          MarkerAt(s, m)}

\* the call with only the active variant requested and no numeric option
ActiveOnlyOptions ==
  [DefaultNumericOptions EXCEPT !.generateInactive = Given(FALSE)]

\* C14: the active variant carries no background rectangle: its svg is the
\* input recolored with the caller's fill and stroke and none-preservation
\* flags, with no marked rectangle added, its fill and stroke are the
\* caller's values and its backgroundColor is undefined, whatever
\* generateInactive, inactiveMix, the corner radius and the inset ratio are.
C14_ActiveWithoutBackground ==
  GenerateReturned =>
    /\ result.variants[1].svg =
         recolorVivaldiSvg(svgContent, call.options.fill, call.options.stroke,
                           OrDefault(call.options.preserveFillNone, TRUE),
                           OrDefault(call.options.preserveStrokeNone, TRUE))
    /\ Cardinality(MarkedRectangles(result.variants[1].svg))
         = Cardinality(MarkedRectangles(svgContent))
    /\ result.variants[1].fill = call.options.fill
    /\ result.variants[1].stroke = call.options.stroke
    /\ result.variants[1].backgroundColor = Absent
    /\ result.variants[1] = generateIconVariants(ActiveOnlyOptions).variants[1]

\* both variants returned for a text without a marked rectangle: the
\* inactive one has the rectangle, the active one is recolored and has none
C14_Witness ==
  /\ InactiveReturned
  /\ call.options.fill = RED
  /\ call.options.inactiveBackgroundInsetRatio = Given(<<1, 4>>)
  /\ MarkedRectangles(svgContent) = {}
  /\ MarkedRectangles(result.variants[2].svg) # {}
  /\ MarkedRectangles(result.variants[1].svg) = {}
  /\ result.variants[1].svg # svgContent

\* the text of the first marked rectangle of a text found by the pattern
MarkedRectText(s) ==
  SubSeq(s, MarkedRectMatch(s).from, MarkedRectMatch(s).last)

\* the value text of the attribute name="..." of a tag, <<>> without one
AttributeText(tag, name) ==
  LET I == {i \in 2..(Len(tag) - 3) :
              /\ tag[i - 1] = " "
              /\ tag[i] = name
              /\ tag[i + 1] = "="
              /\ tag[i + 2] = "\""
              /\ IndexOfFrom(tag, "\"", i + 3) # 0}
  IN IF I = {} THEN <<>>
     ELSE SubSeq(tag, SetMin(I) + 3, IndexOfFrom(tag, "\"", SetMin(I) + 3) - 1)

\* the number an attribute of the inactive variant's marked rectangle holds
InactiveRectNumber(name) ==
  NumberOf(AttributeText(MarkedRectText(result.variants[2].svg), name))

\* the corner radius and the inset ratio the call works with
EffectiveCornerRadius ==
  LET given == OrDefault(call.options.inactiveCornerRadius, DEFAULT_INACTIVE_CORNER_RADIUS)
  IN IF Less(given, Num(0)) THEN Num(0) ELSE given

EffectiveInset ==
  ClampTo(OrDefault(call.options.inactiveBackgroundInsetRatio, DEFAULT_INACTIVE_INSET_RATIO),
          Num(0), <<9, 10>>)

\* the case of C15: both variants returned for a text whose viewBox has
\* four numeric tokens, with a fill that is a color
ViewBoxCase ==
  /\ InactiveReturned
  /\ Usable(call.options.fill)
  /\ FiniteOption(call.options.inactiveCornerRadius)
  /\ FiniteOption(call.options.inactiveBackgroundInsetRatio)
  /\ extractViewBox(svgContent).found

\* C15: for an SVG whose viewBox has four numeric tokens minX minY w h and a
\* call with a fill other than none, the inactive variant holds a marked
\* rect with rx and ry equal to the corner radius (6 by default, 0 for a
\* negative one), width w*(1-r) and height h*(1-r) for the clamped inset
\* ratio r, x = minX + (w - width)/2 and y = minY + (h - height)/2: the
\* rectangle is centered in the viewBox and, for r > 0, strictly smaller.
C15_InsetGeometry ==
  ViewBoxCase =>
    LET box == extractViewBox(svgContent)
        r == EffectiveInset
        x == InactiveRectNumber("x")
        y == InactiveRectNumber("y")
        width == InactiveRectNumber("width")
        height == InactiveRectNumber("height")
    IN /\ MarkedRectMatch(result.variants[2].svg).found
       /\ InactiveRectNumber("rx") = EffectiveCornerRadius
       /\ InactiveRectNumber("ry") = EffectiveCornerRadius
       /\ width = Mul(box.width, Sub(Num(1), r))
       /\ height = Mul(box.height, Sub(Num(1), r))
       /\ x = Add(box.minX, Div(Sub(box.width, width), Num(2)))
       /\ y = Add(box.minY, Div(Sub(box.height, height), Num(2)))
       /\ Sub(x, box.minX) = Sub(Add(box.minX, box.width), Add(x, width))
       /\ Sub(y, box.minY) = Sub(Add(box.minY, box.height), Add(y, height))
       /\ Less(Num(0), r) => (Less(width, box.width) /\ Less(height, box.height))

\* the 24x24 viewBox with the default ratio and radius: 21.6x21.6 at 1.2
C15_Witness ==
  /\ ViewBoxCase
  /\ call.options.inactiveCornerRadius = Omitted
  /\ call.options.inactiveBackgroundInsetRatio = Omitted
  /\ extractViewBox(svgContent).width = Num(24)
  /\ extractViewBox(svgContent).height = Num(24)
  /\ MarkedRectangles(svgContent) = {}
  /\ Includes(result.variants[2].svg,
              Attribute("x", <<"1", ".", "2">>) \o Attribute("y", <<"1", ".", "2">>)
              \o Attribute("width", <<"2", "1", ".", "6">>)
              \o Attribute("height", <<"2", "1", ".", "6">>)
              \o Attribute("rx", <<"6">>) \o Attribute("ry", <<"6">>))

(***************************************************************************)
(* Calls made one after the other by callers that share the library: call  *)
(* is the log of the calls made so far, each with the arguments as they    *)
(* were before the call, the options object as it is after the call, and   *)
(* what the call returned or threw; result is what the last call returned. *)
(***************************************************************************)
MaxCalls == 3

CallDocuments ==
  { SvgDocument("svg", ViewBox24,
                PathElement(Attribute("fill", BLACK) \o Attribute("stroke", NONE))),
    SvgDocument("svg", <<>>, MarkedRect \o PathElement(Attribute("fill", NONE))),
    <<"<", "svg", " ", "fill", "=">> \o Quoted(NONE) }

CallOptions ==
  { [fill |-> fill, stroke |-> Absent, preserveFillNone |-> Omitted,
     preserveStrokeNone |-> Omitted, generateInactive |-> generateInactive,
     inactiveMix |-> inactiveMix, inactiveCornerRadius |-> Omitted,
     inactiveBackgroundInsetRatio |-> Omitted] :
      fill \in {RED, TWO_DIGITS}, generateInactive \in {Omitted},
      inactiveMix \in {Omitted, Given(<<3, 2>>)} }

InitCalls ==
  /\ svgContent \in CallDocuments
  /\ colorInput = <<>>
  /\ call = <<>>
  /\ result = NoResult

\* the entry of a call in the log
LogEntry(op, before, after, returned) ==
  [op |-> op, before |-> before, after |-> after, returned |-> returned]

\* one caller calls generateIconVariants with an options object of its own
CallGenerateIconVariants ==
  /\ Len(call) < MaxCalls
  /\ \E options \in CallOptions :
       call' = Append(call, LogEntry("generateIconVariants",
                                     [svgContent |-> svgContent] @@ options,
                                     OptionsAfterCall([svgContent |-> svgContent] @@ options),
                                     generateIconVariants([svgContent |-> svgContent] @@ options)))
  /\ result' = call'[Len(call')].returned
  /\ UNCHANGED <<svgContent, colorInput>>

\* another caller recolors the text
CallRecolorVivaldiSvg ==
  /\ Len(call) < MaxCalls
  /\ \E fill \in {TEAL} :
       call' = Append(call, LogEntry("recolorVivaldiSvg",
                                     [svgContent |-> svgContent, fill |-> fill],
                                     [svgContent |-> svgContent, fill |-> fill],
                                     [ok |-> TRUE, kind |-> "svg",
                                      svg |-> recolorVivaldiSvg(svgContent, fill, Absent,
                                                                FALSE, TRUE)]))
  /\ result' = call'[Len(call')].returned
  /\ UNCHANGED <<svgContent, colorInput>>

\* another caller injects a background rectangle into the text
CallAddOrUpdateBackgroundRect ==
  /\ Len(call) < MaxCalls
  /\ \E insetRatio \in {<<1, 4>>} :
       call' = Append(call, LogEntry("addOrUpdateBackgroundRect",
                                     [svgContent |-> svgContent, insetRatio |-> insetRatio],
                                     [svgContent |-> svgContent, insetRatio |-> insetRatio],
                                     addOrUpdateBackgroundRect(svgContent, <<"#", "1", "2", "3">>,
                                                               Num(6), insetRatio)))
  /\ result' = call'[Len(call')].returned
  /\ UNCHANGED <<svgContent, colorInput>>

NextCalls ==
  \/ CallGenerateIconVariants
  \/ CallRecolorVivaldiSvg
  \/ CallAddOrUpdateBackgroundRect

SpecCalls == InitCalls /\ [][NextCalls]_vars

\* the calls of generateIconVariants in the log
GenerateCalls == {i \in 1..Len(call) : call[i].op = "generateIconVariants"}

MaxRuns == 2

RunIds == 1..MaxRuns

\* a path at which there is no file
Missing == [exists |-> FALSE]

\* a file with the given text
File(text) == [exists |-> TRUE, text |-> text]

\* the text of a file that was there before any run
OLD == <<"o", "l", "d">>

\* buildOutputPath(options, variantName), for the one output base of the runs
buildOutputPath(variantName) == <<"icon", "-", variantName, ".", "svg">>

OutputPaths == {buildOutputPath("active"), buildOutputPath("inactive")}

\* ensureWritablePath(outputPath, overwrite): fs.stat finds the file or
\* fails with ENOENT; the Error thrown for a file found without overwrite is
\* not an ENOENT and is thrown again
ensureWritablePath(files, outputPath, overwrite) ==
  IF files[outputPath].exists /\ ~overwrite
  THEN [ok |-> FALSE, kind |-> "OutputExists", path |-> outputPath]
  ELSE [ok |-> TRUE]

\* a run that has not started
IdleRun == [pc |-> "idle"]

CliDocument ==
  SvgDocument("svg", ViewBox24,
              PathElement(Attribute("fill", BLACK) \o Attribute("stroke", NONE)))

InitCli ==
  /\ svgContent = CliDocument
  /\ colorInput = <<>>
  /\ call = [r \in RunIds |-> IdleRun]
  /\ result \in [OutputPaths -> {Missing, File(OLD)}]

\* the run after generateIconVariants returned or threw: at the first
\* variant of the loop, or failed with the error
RunAfterGenerate(returned, overwrite) ==
  IF returned.ok
  THEN [pc |-> "ensureWritablePath", overwrite |-> overwrite,
        variants |-> returned.variants, index |-> 1, wrote |-> <<>>]
  ELSE [pc |-> "failed", overwrite |-> overwrite, wrote |-> <<>>, error |-> returned]

\* main up to the loop: the arguments are parsed, the input is read and the
\* variants are generated
StartRun(r) ==
  /\ call[r].pc = "idle"
  /\ \E overwrite \in BOOLEAN, generateInactive \in BOOLEAN :
       call' = [call EXCEPT ![r] =
         RunAfterGenerate(
           generateIconVariants(
             [svgContent |-> svgContent, fill |-> RED, stroke |-> Absent,
              preserveFillNone |-> Given(TRUE), preserveStrokeNone |-> Given(TRUE),
              generateInactive |-> Given(generateInactive),
              inactiveMix |-> Given(DEFAULT_INACTIVE_MIX),
              inactiveCornerRadius |-> Omitted,
              inactiveBackgroundInsetRatio |-> Omitted]),
           overwrite)]
  /\ UNCHANGED <<svgContent, colorInput, result>>

\* await ensureWritablePath(outputPath, options.overwrite)
EnsureWritablePath(r) ==
  /\ call[r].pc = "ensureWritablePath"
  /\ LET outputPath == buildOutputPath(call[r].variants[call[r].index].name)
         checked == ensureWritablePath(result, outputPath, call[r].overwrite)
     IN call' = [call EXCEPT ![r] =
                   IF checked.ok THEN [@ EXCEPT !.pc = "writeFile"]
                   ELSE [pc |-> "failed", overwrite |-> @.overwrite, wrote |-> @.wrote,
                         error |-> checked]]
  /\ UNCHANGED <<svgContent, colorInput, result>>

\* await fs.writeFile(outputPath, variant.svg, "utf8"), then the next variant
WriteFile(r) ==
  /\ call[r].pc = "writeFile"
  /\ LET outputPath == buildOutputPath(call[r].variants[call[r].index].name)
     IN /\ result' = [result EXCEPT ![outputPath] = File(call[r].variants[call[r].index].svg)]
        /\ call' = [call EXCEPT ![r] =
                      [@ EXCEPT !.wrote = Append(@, [path |-> outputPath,
                                                     replaced |-> result[outputPath]]),
                                !.index = @ + 1,
                                !.pc = IF call[r].index < Len(call[r].variants)
                                       THEN "ensureWritablePath" ELSE "done"]]
  /\ UNCHANGED <<svgContent, colorInput>>

NextCli ==
  \E r \in RunIds :
    \/ StartRun(r)
    \/ EnsureWritablePath(r)
    \/ WriteFile(r)

SpecCli == InitCli /\ [][NextCli]_vars

\* the runs that have started
StartedRuns == {r \in RunIds : call[r].pc # "idle"}

\* C17: overwrite protection of the command line program: a run without
\* --overwrite never writes to an output path at which a file exists; it
\* reports an error for that path and the file is left as it was.  Only a
\* run with --overwrite replaces an existing output file.
C17_OverwriteProtection ==
  \A r \in StartedRuns :
    /\ ~call[r].overwrite =>
         \A k \in 1..Len(call[r].wrote) : ~call[r].wrote[k].replaced.exists
    /\ (call[r].pc = "failed" /\ call[r].error.kind = "OutputExists") =>
         /\ ~call[r].overwrite
         /\ result[call[r].error.path].exists
         /\ \A k \in 1..Len(call[r].wrote) : call[r].wrote[k].path # call[r].error.path

(***************************************************************************)
(* Injections made one after the other into one document: svgContent is    *)
(* the document, which the caller replaces with the text each successful   *)
(* call returns; call is the last call, with the document it was given and *)
(* the number of calls made so far.                                        *)
(***************************************************************************)
MaxInjections == 2

SymbolElement(attributes) == <<"<", "symbol">> \o attributes \o <<"/", ">">>

PlainPath == PathElement(Attribute("fill", BLACK))

\* documents with no marked rectangle or with the one a call has written:
\* roots with and without a viewBox of four numbers, a root tag holding a
\* dollar pattern, a viewBox on a child of a root that has none, a marked
\* rectangle outside an svg root, and a text that is no SVG
InjectDocuments ==
  { SvgDocument("svg", ViewBox24, PlainPath),
    SvgDocument("svg", <<>>, PlainPath),
    SvgDocument("svg", ViewBox24, MarkedRect \o PlainPath),
    SvgDocument("svg", ViewBoxAttribute("viewBox", <<"0", " ", "0", " ", "2", "4">>), PlainPath),
    SvgDocument("svg", ViewBoxAttribute("viewBox", <<"0", " ", "0", " ", "a", " ", "2", "4">>),
                PlainPath),
    SvgDocument("svg", Attribute("data-note", <<"$", "&">>), PlainPath),
    SvgDocument("svg", <<>>,
                SymbolElement(ViewBoxAttribute("viewBox",
                                <<"0", " ", "0", " ", "1", "0", " ", "2", "0">>))
                \o PlainPath),
    <<"<", "g", ">">> \o MarkedRect \o <<"<", "/", "g", ">">>,
    <<"<", "not", "-", "svg", "/", ">">> }

InjectColors == {<<"#", "c", "c", "c", "c", "c", "c">>, <<"#", "1", "2", "3">>}

InjectRadii == {Num(6), <<5, 2>>}

InjectRatios == {<<-1, 2>>, <<1, 4>>, <<3, 2>>}

InitInject ==
  /\ svgContent \in InjectDocuments
  /\ colorInput = <<>>
  /\ call = [op |-> "none", n |-> 0]
  /\ result = NoResult

\* the document the caller holds after a call: the text returned, or the
\* document as it was when the call threw
DocumentAfter(document, returned) == IF returned.ok THEN returned.svg ELSE document

\* svgContent = addOrUpdateBackgroundRect(svgContent, color, cornerRadius, insetRatio)
Inject ==
  /\ call.n < MaxInjections
  /\ \E color \in InjectColors, cornerRadius \in InjectRadii, insetRatio \in InjectRatios :
       /\ call' = [op |-> "addOrUpdateBackgroundRect", n |-> call.n + 1,
                   before |-> svgContent, color |-> color,
                   cornerRadius |-> cornerRadius, insetRatio |-> insetRatio]
       /\ result' = addOrUpdateBackgroundRect(svgContent, color, cornerRadius, insetRatio)
  /\ svgContent' = DocumentAfter(svgContent, result')
  /\ UNCHANGED colorInput

NextInject == Inject

SpecInject == InitInject /\ [][NextInject]_vars

\* an injection returned a document
Injected == call.op = "addOrUpdateBackgroundRect" /\ result.ok

RootOpenTagEnd(document) ==
  LET I == {i \in 1..(Len(document) - 1) :
              /\ document[i] = "<"
              /\ Lower(document[i + 1]) = "svg"
              /\ IndexOfFrom(document, ">", i + 2) # 0}
  IN IF I = {} THEN 0 ELSE IndexOfFrom(document, ">", SetMin(I) + 2)

\* C19: when the document has no marked rectangle, the injection inserts
\* the new rectangle immediately after the opening tag of the root svg
\* element, so that it is the root's first child and precedes every child
\* that was there; the rest of the document text is unchanged.
C19_InsertedAfterRootTag ==
  (Injected /\ MarkedRectangles(call.before) = {}) =>
    svgContent =
      SubSeq(call.before, 1, RootOpenTagEnd(call.before))
      \o <<"\n", " ", " ">>
      \o ExpectedRect(call.before, call.color, call.cornerRadius, call.insetRatio)
      \o SubSeq(call.before, RootOpenTagEnd(call.before) + 1, Len(call.before))

\* the viewBox the root opening tag of a document carries
RootViewBox(document) ==
  extractViewBox(SubSeq(document, 1, RootOpenTagEnd(document)))

\* the number of a percentage text, NaN for a text that is no percentage
PercentOf(t) ==
  IF t # <<>> /\ t[Len(t)] = "%" THEN NumberOf(SubSeq(t, 1, Len(t) - 1)) ELSE NaN

\* C20: unit selection of the injected rectangle: it is computed in viewBox
\* units if and only if the root element carries a viewBox attribute with
\* exactly four numeric tokens; in every other case (no viewBox, a token
\* count other than four, a token that is no number) it is expressed in
\* percentages with x = y = r*100/2 and width = height = 100 - r*100 for
\* the clamped ratio r, so that inset + size + inset = 100%.
C20_UnitSelection ==
  Injected =>
    LET rect == MarkedRectText(svgContent)
        r == ClampTo(call.insetRatio, Num(0), <<9, 10>>)
        inset == Div(Mul(r, Num(100)), Num(2))
        size == Sub(Num(100), Mul(r, Num(100)))
    IN IF RootViewBox(call.before).found
       THEN rect = buildInsetRectFromViewBox(RootViewBox(call.before), call.color,
                                             call.cornerRadius, r)
       ELSE /\ PercentOf(AttributeText(rect, "x")) = inset
            /\ PercentOf(AttributeText(rect, "y")) = inset
            /\ PercentOf(AttributeText(rect, "width")) = size
            /\ PercentOf(AttributeText(rect, "height")) = size
            /\ Add(Add(inset, size), inset) = Num(100)

(***************************************************************************)
(* Claims about the recoloring passes taken together.                      *)
(***************************************************************************)
\* C21: fill and stroke recoloring commute: for a fill color and a stroke
\* color and every pair of none-preservation flags, recoloring fill and then
\* stroke gives the same text as recoloring stroke and then fill.
C21_FillStrokeCommute ==
  call.op = "recolorVivaldiSvg" =>
    result.svg = applyColor(applyColor(svgContent, "stroke", call.stroke,
                                       call.preserveStrokeNone),
                            "fill", call.fill, call.preserveFillNone)

\* a style attribute with a fill and a stroke declaration, both rewritten
C21_Witness ==
  /\ call.op = "recolorVivaldiSvg"
  /\ Len(InlineOccurrences(svgContent, "fill")) = 1
  /\ Len(InlineOccurrences(svgContent, "stroke")) = 1
  /\ InlineOccurrences(result.svg, "fill") = <<call.fill>>
  /\ InlineOccurrences(result.svg, "stroke") = <<call.stroke>>
  /\ call.fill # call.stroke

\* the text holds none of the replacement patterns of String.prototype.replace
NoReplacementPattern(s) == \A i \in 1..Len(s) : s[i] # "$"

\* fill and stroke recoloring commute on every text without a replacement
\* pattern
C21_CommuteWithoutPattern ==
  (call.op = "recolorVivaldiSvg" /\ NoReplacementPattern(svgContent)) =>
    result.svg = applyColor(applyColor(svgContent, "stroke", call.stroke,
                                       call.preserveStrokeNone),
                            "fill", call.fill, call.preserveFillNone)

\* the style attributes of a text in document order, each with its whole
\* text and its body
RECURSIVE StyleAttributesFrom(_, _)
StyleAttributesFrom(s, i) ==
  LET next == FirstOf({j \in i..Len(s) : StyleAttributeMatchAt(s, j).found})
      m == StyleAttributeMatchAt(s, next)
  IN IF next = 0 THEN <<>>
     ELSE <<[text |-> SubSeq(s, next, m.last), body |-> SubSeq(s, m.from, m.to)]>>
          \o StyleAttributesFrom(s, m.last + 1)

StyleAttributes(s) == StyleAttributesFrom(s, 1)

\* no declaration of the property in the style body is rewritten: there is
\* none, or each holds none and is skipped by the none-preservation rule
NothingToRewrite(styleBody, property, color, preserveNone) ==
  LET values == DeclarationValues(styleBody, property)
  IN \A k \in 1..Len(values) :
       preserveNone /\ IsNoneText(values[k]) /\ ~IsNoneText(color)

\* C22: no spurious re-formatting in the inline style pass: every style
\* attribute in which no declaration of the target property is rewritten
\* (none present, or all skipped by the none-preservation rule) is
\* character for character the original attribute text in the output.
C22_NoSpuriousReformat ==
  call.op = "applyColor" =>
    LET before == StyleAttributes(svgContent)
        after == StyleAttributes(result.svg)
    IN /\ Len(after) = Len(before)
       /\ \A k \in 1..Len(before) :
            NothingToRewrite(before[k].body, call.property, call.color, call.preserveNone)
              => after[k].text = before[k].text

\* a style attribute with irregular white space whose one declaration of the
\* property is kept as none, next to a declaration of the other property
C22_Witness ==
  /\ call.op = "applyColor"
  /\ call.property = "stroke"
  /\ call.preserveNone
  /\ ~IsNoneText(call.color)
  /\ Len(StyleAttributes(svgContent)) = 1
  /\ InlineOccurrences(svgContent, "stroke") = <<NONE>>
  /\ Len(InlineOccurrences(svgContent, "fill")) = 1
  /\ \E i \in 1..Len(svgContent) : svgContent[i] = "\n"
  /\ result.svg = svgContent

\* a declaration whose name is the property followed by a hyphen and more
\* (fill-opacity for fill), found at index i of a block content: from..to is
\* the whole declaration, name and value
LongerNameAt(b, i, property) ==
  IF Lower(b[i]) # property \/ i + 1 > Len(b) THEN NoMatch
  ELSE IF b[i + 1] # "-" THEN NoMatch
  ELSE LET stops == {k \in (i + 1)..Len(b) : b[k] \in {";", "}"}}
           end == IF stops = {} THEN Len(b) ELSE SetMin(stops) - 1
       IN [found |-> TRUE, from |-> i, to |-> end, last |-> end]

RECURSIVE LongerNamesFrom(_, _, _)
LongerNamesFrom(b, i, property) ==
  LET next == FirstOf({j \in i..Len(b) : LongerNameAt(b, j, property).found})
      m == LongerNameAt(b, next, property)
  IN IF next = 0 THEN <<>>
     ELSE <<SubSeq(b, m.from, m.to)>> \o LongerNamesFrom(b, m.last + 1, property)

\* the declarations with a longer name in the style blocks of a text, in
\* document order
RECURSIVE LongerNameDeclarationsFrom(_, _, _)
LongerNameDeclarationsFrom(s, i, property) ==
  LET next == FirstOf({j \in i..Len(s) : StyleBlockMatchAt(s, j).found})
      m == StyleBlockMatchAt(s, next)
  IN IF next = 0 THEN <<>>
     ELSE LongerNamesFrom(SubSeq(s, m.from, m.to), 1, property)
          \o LongerNameDeclarationsFrom(s, m.last + 1, property)

LongerNameDeclarations(s, property) == LongerNameDeclarationsFrom(s, 1, property)

Range(f) == {f[k] : k \in DOMAIN f}

\* C23: in the style block pass, recoloring a property never matches a
\* longer property name that has the property as a prefix: a declaration
\* such as fill-opacity keeps its name and value, while the declarations of
\* the property itself in the same block are rewritten in place.  (In a
\* block holding a replacement pattern the splice of claim C1 adds a copy of
\* the old block; there the declarations are compared as sets.)
C23_LongerNamesUntouched ==
  call.op = "applyColor" =>
    LET P == call.property
        longerBefore == LongerNameDeclarations(svgContent, P)
        longerAfter == LongerNameDeclarations(result.svg, P)
        before == BlockOccurrences(svgContent, P)
        after == BlockOccurrences(result.svg, P)
        rewritten(k) == ~(call.preserveNone /\ IsNoneText(before[k])
                          /\ ~IsNoneText(call.color))
    IN IF NoReplacementPattern(svgContent)
       THEN /\ longerAfter = longerBefore
            /\ Len(after) = Len(before)
            /\ \A k \in 1..Len(before) :
                 after[k] = IF rewritten(k) THEN call.color ELSE before[k]
       ELSE /\ Range(longerAfter) = Range(longerBefore)
            /\ \A k \in 1..Len(before) :
                 rewritten(k) => \E j \in 1..Len(after) : after[j] = call.color

\* a style block with a fill-opacity declaration and a fill declaration: the
\* first is kept, the second rewritten
C23_Witness ==
  /\ call.op = "applyColor"
  /\ call.property = "fill"
  /\ call.color = <<"#", "f", "f", "f">>
  /\ LongerNameDeclarations(svgContent, "fill") = << <<"fill", "-", "opacity", ":">> \o NONE >>
  /\ BlockOccurrences(svgContent, "fill") = <<BLACK>>
  /\ LongerNameDeclarations(result.svg, "fill") = << <<"fill", "-", "opacity", ":">> \o NONE >>
  /\ BlockOccurrences(result.svg, "fill") = << <<"#", "f", "f", "f">> >>

\* the units that end a name on either side
NameBreaks == {" ", "\n", "<", ">", "/", "\"", "=", ":", ";", "{", "}", "."}

\* the unit at index i starts a name: no name unit stands before it
StartsName(s, i) == i = 1 \/ s[i - 1] \in NameBreaks

\* some attribute, inline style declaration or style block declaration of
\* the text has a name that is exactly the property
HasExactName(s, property) ==
  \/ \E j \in 1..Len(s) : AttributeMatchAt(s, j, property).found /\ StartsName(s, j)
  \/ Len(InlineOccurrences(s, property)) > 0
  \/ /\ Len(BlockOccurrences(s, property)) > 0
     /\ \E j \in 1..Len(s) : PropertyMatchAt(s, j, property).found /\ StartsName(s, j)

\* C29: recolor for a property changes only values bound to a name that is
\* exactly the property: a text in which the property occurs only inside
\* longer names (fill-opacity, data-fill) or not at all comes back unchanged.
C29_ExactNameOnly ==
  (call.op = "applyColor" /\ ~HasExactName(svgContent, call.property)) =>
    result.svg = svgContent

\* the same for the names that start with the property: these are kept
C29_LongerPrefixedNamesKept ==
  (call.op = "applyColor" /\ ~HasExactName(svgContent, call.property)
     /\ \A j \in 1..Len(svgContent) :
          AttributeMatchAt(svgContent, j, call.property).found => StartsName(svgContent, j)) =>
    result.svg = svgContent

(***************************************************************************)
(* Claims about the derived colors, read digit by digit.                   *)
(***************************************************************************)
\* the bytes a hex color text stands for, in the order written: a digit of
\* a short form counts twice
BytesOf(text) ==
  LET d == Tail(text)
  IN IF Len(d) \in {3, 4}
     THEN [k \in 1..Len(d) |-> 17 * HexValue(d[k])]
     ELSE [k \in 1..(Len(d) \div 2) |-> 16 * HexValue(d[2 * k - 1]) + HexValue(d[2 * k])]

LowerHexDigits ==
  {"0", "1", "2", "3", "4", "5", "6", "7", "8", "9", "a", "b", "c", "d", "e", "f"}

\* # followed by lower-case hex digits only
IsLowerHex(text) ==
  /\ Len(text) >= 1
  /\ text[1] = "#"
  /\ \A i \in 2..Len(text) : text[i] \in LowerHexDigits

\* C24: the inactive background is a gray that depends only on lightness:
\* for every valid hex color of lightness l and every mix ratio m in [0,1]
\* the result is # and exactly 6 lower-case hex digits whose red, green and
\* blue bytes are equal, each round(255 * (l * (1 - m) + 0.85 * m)); hue,
\* saturation and alpha of the input have no influence.
C24_BackgroundIsGray ==
  call.op = "createInactiveBackgroundColor" =>
    LET in == BytesOf(colorInput)
        m == call.mixRatio
        l == Frac(SetMax({in[1], in[2], in[3]}) + SetMin({in[1], in[2], in[3]}), 510)
        gray == MathRound(Mul(Num(255),
                              Add(Mul(l, Sub(Num(1), m)), Mul(<<17, 20>>, m))))
    IN /\ Len(result.value) = 7
       /\ IsLowerHex(result.value)
       /\ BytesOf(result.value) = <<gray, gray, gray>>

\* a saturated color with an alpha channel and its gray at mix 1/2
C24_Witness ==
  /\ call.op = "createInactiveBackgroundColor"
  /\ colorInput = <<"#", "F", "0", "0", "c">>
  /\ call.mixRatio = <<1, 2>>
  /\ result.value = <<"#", "a", "c", "a", "c", "a", "c">>

\* C25: the inactive color keeps alpha-explicitness: the output carries an
\* alpha byte (8 digits) exactly when the input was written with 4 or 8
\* digits, and has exactly 6 digits otherwise; the alpha byte is the input
\* alpha scaled by (1 - 0.1 * mix) and rounded.
C25_AlphaExplicitness ==
  (call.op = "createInactiveColor" /\ colorInput \in HexInputs) =>
    LET in == BytesOf(colorInput)
        explicit == (Len(colorInput) - 1) \in {4, 8}
        alpha == MathRound(Mul(Num(in[4]), Sub(Num(1), Mul(<<1, 10>>, call.mixRatio))))
    IN /\ IsLowerHex(result.value)
       /\ Len(result.value) = IF explicit THEN 9 ELSE 7
       /\ explicit => BytesOf(result.value)[4] = alpha

\* a short form with alpha f at mix 1: 255 * 0.9 rounds to 230 (e6)
C25_Witness ==
  /\ call.op = "createInactiveColor"
  /\ Len(colorInput) = 5
  /\ colorInput[5] = "F"
  /\ call.mixRatio = Num(1)
  /\ Len(result.value) = 9
  /\ SubSeq(result.value, 8, 9) = <<"e", "6">>

(***************************************************************************)
(* Claims about the colors of the inactive variant.                        *)
(***************************************************************************)
\* the text without its first marked rectangle
StripMarkedRect(s) ==
  LET m == MarkedRectMatch(s)
  IN IF m.found THEN SubSeq(s, 1, m.from - 1) \o SubSeq(s, m.last + 1, Len(s)) ELSE s

\* the occurrences of a property on the three surfaces
Occurrences(s, property) ==
  <<AttributeOccurrences(s, property), InlineOccurrences(s, property),
    BlockOccurrences(s, property)>>

\* C26: none and absent pass through the inactive transform: when the
\* caller's fill or stroke is absent or none, the inactive variant records
\* the same absent or none value, with no color transform applied, and
\* outside the background rectangle the inactive svg is recolored for that
\* property exactly as the active svg is.
C26_NonePassesThrough ==
  InactiveReturned =>
    \A P \in {"fill", "stroke"} :
      (call.options[P] = Absent \/ IsNoneText(call.options[P])) =>
        /\ result.variants[2][P] = call.options[P]
        /\ Occurrences(StripMarkedRect(result.variants[2].svg), P)
             = Occurrences(StripMarkedRect(result.variants[1].svg), P)

\* fill none with a stroke color: the stroke is transformed, the fill is
\* none in both variants and the background comes from the stroke
C26_Witness ==
  /\ InactiveReturned
  /\ call.options.fill = NONE
  /\ call.options.stroke = TEAL
  /\ result.variants[2].fill = NONE
  /\ result.variants[2].stroke # TEAL
  /\ result.variants[2].backgroundColor # Absent
  /\ AttributeOccurrences(StripMarkedRect(result.variants[2].svg), "fill") = <<NONE>>
  /\ AttributeOccurrences(StripMarkedRect(result.variants[1].svg), "fill") = <<NONE>>

\* C28: in the inactive variant the marked rectangle's fill attribute is
\* the recorded backgroundColor: the recolor pass never overwrites it,
\* because the rectangle is injected after the recolor pass.
C28_RectKeepsBackgroundColor ==
  (InactiveReturned /\ result.variants[2].backgroundColor # Absent) =>
    /\ MarkedRectMatch(result.variants[2].svg).found
    /\ AttributeText(MarkedRectText(result.variants[2].svg), "fill")
         = result.variants[2].backgroundColor

\* a fill color that is rewritten on the path while the rectangle holds the
\* background color
C28_Witness ==
  /\ InactiveReturned
  /\ call.options.fill = RED
  /\ result.variants[2].backgroundColor # Absent
  /\ result.variants[2].backgroundColor # result.variants[2].fill
  /\ AttributeText(MarkedRectText(result.variants[2].svg), "fill")
       = result.variants[2].backgroundColor
  /\ AttributeOccurrences(StripMarkedRect(result.variants[2].svg), "fill")
       = <<result.variants[2].fill>>

\* validateColorInput accepts the color, or the color is absent
Accepted(color) == color = Absent \/ validateColorInput(color).ok

\* # followed by exactly 6 or 8 hex digits
IsLongHex(t) == IsHexLiteral(t) /\ Len(t) \in {7, 9}

RecordedColors(variant) == {variant.fill, variant.stroke, variant.backgroundColor}

\* C30 as stated: whenever the caller's fill and stroke are accepted by
\* validateColorInput, every fill, stroke and backgroundColor recorded in
\* the returned variants is absent, the keyword none, or # followed by
\* exactly 6 or 8 hex digits.
C30_OutputColorsLong ==
  (GenerateReturned /\ Accepted(call.options.fill) /\ Accepted(call.options.stroke)) =>
    \A k \in 1..Len(result.variants) :
      \A c \in RecordedColors(result.variants[k]) :
        c = Absent \/ IsNoneKeyword(c) \/ IsLongHex(c)

\* C30 as amended: the active variant records the caller's fill and stroke
\* as given, so in any of the accepted forms of 3, 4, 6 or 8 digits; the
\* colors the inactive variant records are absent, the keyword none, or #
\* followed by exactly 6 or 8 lower-case hex digits; every recorded color is
\* accepted by validateColorInput.
C30_OutputColorsValid ==
  (GenerateReturned /\ Accepted(call.options.fill) /\ Accepted(call.options.stroke)) =>
    /\ result.variants[1].fill = call.options.fill
    /\ result.variants[1].stroke = call.options.stroke
    /\ result.variants[1].backgroundColor = Absent
    /\ Len(result.variants) = 2 =>
         \A c \in RecordedColors(result.variants[2]) :
           c = Absent \/ IsNoneKeyword(c) \/ (IsLongHex(c) /\ IsLowerHex(c))
    /\ \A k \in 1..Len(result.variants) :
         \A c \in RecordedColors(result.variants[k]) : Accepted(c)

\* a short fill with alpha: recorded as given in the active variant, with
\* eight digits in the inactive one, next to a background of six digits
C30_Witness ==
  /\ InactiveReturned
  /\ call.options.fill = SHORT_ALPHA
  /\ result.variants[1].fill = SHORT_ALPHA
  /\ Len(result.variants[2].fill) = 9
  /\ Len(result.variants[2].backgroundColor) = 7

(***************************************************************************)
(* src/unnamed/part_002 (src/ui/App.tsx): the component App and the object *)
(* URLs of its download links.  Here svgContent and colorInput are the svg *)
(* text and the fill the form holds, call is the component (its state, its *)
(* memo and its effects) and result is the document's store of object      *)
(* URLs.  An object URL is a number, in the order of creation.             *)
(***************************************************************************)
MaxUrls == 6

\* customSvg while no file has been read: null
NoSvg == <<>>

DEFAULT_FILL == <<"#", "f", "f", "0", "0", "0", "0">>

UiDocuments == {CliDocument, NoSvg}

UiFills == {DEFAULT_FILL, TWO_DIGITS}

\* the names of the variants a call of generateIconVariants returned, none
\* when it threw (lines 56 to 60)
VariantNames(returned) ==
  IF returned.ok THEN [k \in 1..Len(returned.variants) |-> returned.variants[k].name]
  ELSE <<>>

\* the first effect (lines 36 to 62): the list handed to setVariants
CreatedVariants(svg, fill) ==
  IF svg = NoSvg THEN <<>>
  ELSE IF ~validateColorInput(fill).ok THEN <<>>
  ELSE VariantNames(
         generateIconVariants(
           [svgContent |-> svg, fill |-> validateColorInput(fill).value, stroke |-> Absent,
            preserveFillNone |-> Omitted, preserveStrokeNone |-> Omitted,
            generateInactive |-> Omitted, inactiveMix |-> Given(DEFAULT_INACTIVE_MIX),
            inactiveCornerRadius |-> Omitted, inactiveBackgroundInsetRatio |-> Omitted]))

\* the list the first effect creates, for each input of the form.  The
\* library is a function of its arguments: the component's state holds its
\* answers, computed once
VariantsByInput ==
  [input \in UiDocuments \X UiFills |-> CreatedVariants(input[1], input[2])]

\* the memo downloadUrls (lines 64 to 71): one new object URL per variant,
\* numbered after the URLs created so far
DownloadUrls(variants, created) ==
  [name \in {variants[k] : k \in 1..Len(variants)} |->
     created + (CHOOSE k \in 1..Len(variants) : variants[k] = name)]

\* a cleanup that revokes nothing
RevokedByCleanup_Nothing(urls) == {}

\* the cleanup of the second effect (lines 74 to 76): it revokes the values
\* of the map the effect was set up with
RevokedByCleanup(urls) == urls

\* the component after its first render was committed: no variants, an empty
\* map, both effects scheduled
InitUi ==
  /\ svgContent = CliDocument
  /\ colorInput = DEFAULT_FILL
  /\ call = [mounted |-> TRUE, variants |-> <<>>, stale |-> FALSE, downloadUrls |-> <<>>,
             cleanup |-> {}, dirty |-> FALSE, depsChanged |-> FALSE,
             pending |-> {"generate", "urls"}, created |-> VariantsByInput]
  /\ result = [created |-> 0, live |-> {}]

\* an input of the form changes (setPreset, setCustomSvg, setFill): a render
\* is scheduled
ChangeInput(svg, fill) ==
  /\ call.mounted
  /\ <<svg, fill>> # <<svgContent, colorInput>>
  /\ svgContent' = svg
  /\ colorInput' = fill
  /\ call' = [call EXCEPT !.dirty = TRUE, !.depsChanged = TRUE]
  /\ UNCHANGED result

\* a render and its commit.  React runs the effects of the last commit
\* before it renders again.  The memo is computed anew when variants
\* changed, and each effect whose dependencies changed is scheduled
Render ==
  /\ call.mounted
  /\ call.dirty
  /\ call.pending = {}
  /\ LET n == IF call.stale THEN Len(call.variants) ELSE 0
     IN /\ result.created + n <= MaxUrls
        /\ result' = [created |-> result.created + n,
                      live |-> result.live \cup ((result.created + 1)..(result.created + n))]
        /\ call' = [call EXCEPT
                      !.downloadUrls = IF call.stale
                                       THEN DownloadUrls(call.variants, result.created)
                                       ELSE @,
                      !.stale = FALSE,
                      !.dirty = FALSE,
                      !.depsChanged = FALSE,
                      !.pending = (IF call.depsChanged THEN {"generate"} ELSE {})
                                  \cup (IF call.stale THEN {"urls"} ELSE {})]
  /\ UNCHANGED <<svgContent, colorInput>>

\* the effects of the last commit: the cleanup of the second effect as it
\* was set up before, then the first effect (setVariants with a new list)
\* and the second effect set up with the map of this commit
FlushEffects ==
  /\ call.mounted
  /\ call.pending # {}
  /\ result' = [result EXCEPT
                  !.live = IF "urls" \in call.pending
                           THEN @ \ RevokedByCleanup(call.cleanup) ELSE @]
  /\ call' = [call EXCEPT
                !.cleanup = IF "urls" \in call.pending
                            THEN {call.downloadUrls[name] : name \in DOMAIN call.downloadUrls}
                            ELSE @,
                !.variants = IF "generate" \in call.pending
                             THEN call.created[<<svgContent, colorInput>>] ELSE @,
                !.stale = IF "generate" \in call.pending THEN TRUE ELSE @,
                !.dirty = IF "generate" \in call.pending THEN TRUE ELSE @,
                !.pending = {}]
  /\ UNCHANGED <<svgContent, colorInput>>

\* the component is unmounted: React runs the effects of the last commit
\* first, and then the cleanup of the second effect
Unmount ==
  /\ call.mounted
  /\ call.pending = {}
  /\ result' = [result EXCEPT !.live = @ \ RevokedByCleanup(call.cleanup)]
  /\ call' = [call EXCEPT !.mounted = FALSE]
  /\ UNCHANGED <<svgContent, colorInput>>

NextUi ==
  \/ \E svg \in UiDocuments, fill \in UiFills : ChangeInput(svg, fill)
  \/ Render
  \/ FlushEffects
  \/ Unmount

\* React runs a scheduled render and the effects of a commit
SpecUi == InitUi /\ [][NextUi]_vars /\ WF_vars(Render) /\ WF_vars(FlushEffects)

\* the object URLs of the download links on the page
DisplayedUrls == {call.downloadUrls[name] : name \in DOMAIN call.downloadUrls}

\* no URL of the displayed variants is revoked while they are displayed
DisplayedUrlsLive == call.mounted => DisplayedUrls \subseteq result.live

\* once the effects of a commit have run, the live URLs are exactly those of
\* the displayed variants, one per variant; after the unmount none is live
LiveUrlsExact ==
  /\ (call.mounted /\ "urls" \notin call.pending) => result.live = DisplayedUrls
  /\ (call.mounted /\ ~call.stale /\ call.pending = {}) =>
       Cardinality(result.live) = Len(call.variants)
  /\ ~call.mounted => result.live = {}

\* C27: download URL cleanup: every object URL the component creates for a
\* list of variants is revoked once that list is replaced by a new one or
\* the component unmounts; no URL of the displayed variants is revoked while
\* they are displayed; after any sequence of input changes the live URLs are
\* exactly those of the current variants.
C27_UrlCleanup ==
  /\ [](DisplayedUrlsLive /\ LiveUrlsExact)
  /\ \A url \in 1..MaxUrls :
       (url \in result.live /\ (url \notin DisplayedUrls \/ ~call.mounted))
         ~> (url \notin result.live)

\* two lists of variants were replaced: the URLs of the first are revoked,
\* those of the second are live and displayed
C27_Witness ==
  /\ call.mounted
  /\ call.pending = {}
  /\ result.created = 4
  /\ result.live = {3, 4}
  /\ DisplayedUrls = {3, 4}

====
